---- MODULE Spec2Model ----
(***************************************************************************)
(* A model of the receipt processor: the extraction and validation        *)
(* pipeline (backend/receipt_parser.py, backend/config.py), the ledger     *)
(* (backend/sheets.py) and the HTTP server (backend/main.py).  Each        *)
(* component has its own specification over the shared variables:          *)
(*   SpecValidate  _validate_receipt_data, called on every raw mapping     *)
(*   SpecExtract   _parse_json_response, called on every response text     *)
(*   SpecQr        decode_receipt_qr, stepping through the decoded codes   *)
(*   SpecParse     parse_receipt: provider lookup, adapter, validation     *)
(*   SpecHttp      the middleware and the handlers, one request at a time  *)
(*   SpecRow       ReceiptData.to_sheet_row, called on every record        *)
(*   SpecAppend    append_expense in two requests served at the same time  *)
(*   SpecLookup    lookup_category_by_bulstat, called on every sheet       *)
(*                                                                         *)
(* Python values are tagged records:                                       *)
(*   Missing   the key is not in the mapping (dict.get returns its default)*)
(*   Null      JSON null / Python None                                     *)
(*   Str(s)    a string taken from a vocabulary, kept as an atom           *)
(*   Chars(cs) a string whose characters matter: a sequence of characters  *)
(*   Num(n)    a number; amounts are counted in hundredths                 *)
(* Cyrillic vocabulary entries are written in Latin transliteration.       *)
(***************************************************************************)
EXTENDS Integers, Sequences, FiniteSets, TLC

VARIABLES
    data,        \* _validate_receipt_data: the raw mapping passed in
    call_args,   \* the extra positional arguments of the call (the category list)
    validated,   \* the outcome of the call: a receipt or a raised exception
    v_pc,        \* "idle" before the call, "done" after it
    text,        \* _parse_json_response: the model's response text
    extracted,   \* the outcome of _parse_json_response(text)
    x_pc,        \* "idle" before the call, "done" after it
    qr_pc,       \* decode_receipt_qr: "start", "loop" (at the for statement),
                 \*   "body" (inside the loop body), "done" (returned or raised)
    qr_idx,      \* how many of the decoded codes the loop has taken
    qr_code,     \* the code the loop body is working on
    qr_text_bound, \* whether the local variable text has been assigned
    qr_result,   \* what decode_receipt_qr returned or raised
    pr_call,     \* parse_receipt: the provider and categories arguments of the call
    pr_env,      \* the VISION_PROVIDER environment variable
    pr_pc,       \* "idle", "adapter" (about to call parse_fn), "validate", "done"
    pr_provider, \* the local variable provider once resolved
    pr_fn,       \* the local variable parse_fn
    pr_invocations, \* the adapter calls made so far: function and arguments
    pr_adapter,  \* what the adapter call returned or raised
    pr_result,   \* what parse_receipt returned or raised
    auth_token,  \* main.py: AUTH_TOKEN, "" when no token is configured
    sheet,       \* the worksheet: its rows with data, the header first
    last_written_row, \* _last_written_row
    h_pc,        \* "idle" between requests, else where the handler stands
    h_request,   \* the request being served, or served last
    h_response,  \* the response to it, NoResponse while it is served
    h_ran,       \* whether the request's handler was entered
    h_ops,       \* the sheets.py calls made for the request
    h_log,       \* the discrepancy warnings logged for the request
    h_qr_data,   \* upload_receipt: qr_data
    h_parsed,    \* upload_receipt: what parse_receipt returned or raised
    h_receipt,   \* upload_receipt / manual_entry: receipt
    h_hist,      \* upload_receipt: historical_cat, or Raised when the lookup failed
    h_count,     \* how many requests have arrived
    h_next_id,   \* the identity the next row written gets
    h_appended,  \* the identity of the row of the last append that succeeded
    h_pending,   \* whether an append has succeeded since the server started
                 \*   or since the last undo that succeeded
    h_before,    \* the sheet and the register when the request arrived
    rw_record,   \* to_sheet_row: the record (self)
    rw_row,      \* the list it returned
    rw_pc,       \* "idle" before the call, "done" after it
    ap_sheet,    \* concurrent requests: the worksheet they append to
    ap_receipt,  \* append_expense: the receipt of each request
    ap_pc,       \* where each request stands in append_expense: "start",
                 \*   "appended" (ws.append_row has returned), "done"
    ap_row,      \* the row number append_expense returned to each request
    lk_sheet,    \* lookup_category_by_bulstat: the rows ws.get_all_values() returns
    lk_bulstat,  \* the bulstat argument
    lk_result,   \* the value returned
    lk_pc        \* "idle" before the call, "done" after it

validator_vars == <<data, call_args, validated, v_pc>>
extractor_vars == <<text, extracted, x_pc>>
qr_vars == <<qr_pc, qr_idx, qr_code, qr_text_bound, qr_result>>
parse_vars == <<pr_call, pr_env, pr_pc, pr_provider, pr_fn, pr_invocations,
                pr_adapter, pr_result>>
http_vars == <<auth_token, sheet, last_written_row, h_pc, h_request, h_response,
               h_ran, h_ops, h_log, h_qr_data, h_parsed, h_receipt, h_hist,
               h_count, h_next_id, h_appended, h_pending, h_before>>
row_vars == <<rw_record, rw_row, rw_pc>>
append_vars == <<ap_sheet, ap_receipt, ap_pc, ap_row>>
lookup_vars == <<lk_sheet, lk_bulstat, lk_result, lk_pc>>
ledger_vars == <<rw_record, rw_row, rw_pc, ap_sheet, ap_receipt, ap_pc, ap_row,
                 lk_sheet, lk_bulstat, lk_result, lk_pc>>
vars == <<data, call_args, validated, v_pc, text, extracted, x_pc,
          qr_pc, qr_idx, qr_code, qr_text_bound, qr_result,
          pr_call, pr_env, pr_pc, pr_provider, pr_fn, pr_invocations,
          pr_adapter, pr_result,
          auth_token, sheet, last_written_row, h_pc, h_request, h_response,
          h_ran, h_ops, h_log, h_qr_data, h_parsed, h_receipt, h_hist,
          h_count, h_next_id, h_appended, h_pending, h_before,
          rw_record, rw_row, rw_pc, ap_sheet, ap_receipt, ap_pc, ap_row,
          lk_sheet, lk_bulstat, lk_result, lk_pc>>

\* ------------------------------------------------------------ Python values

Missing == [t |-> "missing"]
Null == [t |-> "null"]
Str(s) == [t |-> "str", s |-> s]
Chars(cs) == [t |-> "chars", cs |-> cs]
Num(n) == [t |-> "num", n |-> n]

\* dict.get(key) with no default: an absent key reads as None.
Get(v) == IF v = Missing THEN Null ELSE v

\* dict.get(key, default)
GetDefault(v, d) == IF v = Missing THEN d ELSE v

\* Python truthiness of a value: None, "" and 0 are falsy.
Truthy(v) ==
    CASE v.t = "null" -> FALSE
      [] v.t = "missing" -> FALSE
      [] v.t = "str" -> v.s # ""
      [] v.t = "chars" -> v.cs # <<>>
      [] v.t = "num" -> v.n # 0

\* x in L for a list L of vocabulary strings.
InList(v, L) == v.t = "str" /\ \E i \in 1..Len(L) : L[i] = v.s

\* All sequences over S of length at most n.
SeqsUpTo(S, n) == UNION {[1..k -> S] : k \in 0..n}

\* ------------------------------------------------------------ config.py

CATEGORIES ==
    << "Hrana", "Oborotni stoki", "Stoki za doma", "Zabavleniya", "Kozmetika",
       "Gorivo", "Drehi i obuvki", "Razhodi kvartira", "Balchik", "Varna",
       "Provadiya", "Podaratsi", "Tehsol", "Abonamentni smetki",
       "Kreditni karti", "Zdravni", "Lora", "Bebe", "Razni",
       "Razhodi apartament" >>

PAYMENT_METHODS ==
    << "VirtualenPOS", "Cash", "Diners", "ePay", "PayPal", "RaiCard",
       "Revolut", "FIB 0889", "Vaucheri za hrana", "OBB", "Bulbank 4416" >>


ReceiptData(date, total_eur, category, payment_method, notes, bulstat) ==
    [date |-> date, total_eur |-> total_eur, category |-> category,
     payment_method |-> payment_method, notes |-> notes, bulstat |-> bulstat]

\* ------------------------------------------------------------ characters

Digit == {"0", "1", "2", "3", "4", "5", "6", "7", "8", "9"}

DigitValue(c) ==
    CASE c = "0" -> 0 [] c = "1" -> 1 [] c = "2" -> 2 [] c = "3" -> 3
      [] c = "4" -> 4 [] c = "5" -> 5 [] c = "6" -> 6 [] c = "7" -> 7
      [] c = "8" -> 8 [] c = "9" -> 9

\* re.sub(r"\D", "", s): drop every character that is not a digit.
RECURSIVE StripNonDigits(_)
StripNonDigits(cs) ==
    IF cs = <<>> THEN <<>>
    ELSE IF Head(cs) \in Digit
         THEN <<Head(cs)>> \o StripNonDigits(Tail(cs))
         ELSE StripNonDigits(Tail(cs))

\* The decimal digits of a natural number, as str() prints them.
RECURSIVE NatDigits(_)
NatDigits(n) ==
    LET d == CHOOSE c \in Digit : DigitValue(c) = n % 10
    IN IF n < 10 THEN <<d>> ELSE NatDigits(n \div 10) \o <<d>>

\* str(v) for the values a tax id can take.
PyStr(v) ==
    CASE v.t = "chars" -> v.cs
      [] v.t = "num" -> IF v.n < 0 THEN <<"-">> \o NatDigits(-v.n) ELSE NatDigits(v.n)

\* The value of a string of digits, in hundredths (float("7") is 7.0, i.e. 700).
RECURSIVE DigitsValue(_)
DigitsValue(cs) ==
    IF cs = <<>> THEN 0
    ELSE 10 * DigitsValue(SubSeq(cs, 1, Len(cs) - 1)) + DigitValue(cs[Len(cs)])

\* float() made lenient: whatever cannot be converted counts as 0.
Float_ZeroOnError(v) ==
    CASE v.t = "num" -> [raised |-> "none", value |-> v.n]
      [] v.t = "null" -> [raised |-> "none", value |-> 0]
      [] v.t = "chars" ->
            IF v.cs # <<>> /\ \A i \in 1..Len(v.cs) : v.cs[i] \in Digit
            THEN [raised |-> "none", value |-> 100 * DigitsValue(v.cs)]
            ELSE [raised |-> "none", value |-> 0]

\* float() followed by a clamp of negative amounts to 0.
Float_Clamped(v) ==
    CASE v.t = "num" -> [raised |-> "none", value |-> IF v.n < 0 THEN 0 ELSE v.n]
      [] v.t = "null" -> [raised |-> "TypeError", value |-> 0]
      [] v.t = "chars" ->
            IF v.cs # <<>> /\ \A i \in 1..Len(v.cs) : v.cs[i] \in Digit
            THEN [raised |-> "none", value |-> 100 * DigitsValue(v.cs)]
            ELSE [raised |-> "ValueError", value |-> 0]

\* float(v): a number, or the exception float() raises.
\* A number is itself; a string of digits is its value; None is a TypeError;
\* any other string here (empty, or holding a non-digit) is a ValueError.
Float(v) ==
    CASE v.t = "num" -> [raised |-> "none", value |-> v.n]
      [] v.t = "null" -> [raised |-> "TypeError", value |-> 0]
      [] v.t = "chars" ->
            IF v.cs # <<>> /\ \A i \in 1..Len(v.cs) : v.cs[i] \in Digit
            THEN [raised |-> "none", value |-> 100 * DigitsValue(v.cs)]
            ELSE [raised |-> "ValueError", value |-> 0]

\* ------------------------------------------------------------ _validate_receipt_data

NoReceipt == [none |-> TRUE]

Returned(r) == [raised |-> "none", receipt |-> r]
Raised(e) == [raised |-> e, receipt |-> NoReceipt]

DefaultCategory == "Razni"

\* category = data.get("category", "Разни"); if category not in CATEGORIES: ...
ValidCategory(d) ==
    LET category == GetDefault(d.category, Str(DefaultCategory))
    IN IF ~InList(category, CATEGORIES) THEN Str(DefaultCategory) ELSE category

\* payment = data.get("payment_method")
\* if payment and payment not in PAYMENT_METHODS: payment = None
ValidPayment(d) ==
    LET payment == Get(d.payment_method)
    IN IF Truthy(payment) /\ ~InList(payment, PAYMENT_METHODS) THEN Null ELSE payment

\* bulstat = data.get("bulstat")
\* if bulstat: bulstat = re.sub(r"\D", "", str(bulstat)); if not bulstat: None
ValidBulstat(d) ==
    LET bulstat == Get(d.bulstat)
    IN IF Truthy(bulstat)
       THEN LET digits == StripNonDigits(PyStr(bulstat))
            IN IF digits = <<>> THEN Null ELSE Chars(digits)
       ELSE bulstat

\* _validate_receipt_data(data)
validate_receipt_data(d) ==
    LET total == Float(GetDefault(d.total_eur, Num(0)))
    IN IF total.raised # "none"
       THEN Raised(total.raised)
       ELSE Returned(ReceiptData(GetDefault(d.date, Str("")),
                                 total.value,
                                 ValidCategory(d),
                                 ValidPayment(d),
                                 GetDefault(d.notes, Str("")),
                                 ValidBulstat(d)))

\* A call _validate_receipt_data(data, *args): the function takes exactly one
\* positional parameter, so any further argument is a TypeError at the call.
NoArgs == <<>>

CallValidate(d, args) ==
    IF Len(args) > 0 THEN Raised("TypeError") ELSE validate_receipt_data(d)

\* ------------------------------------------------------------ response text

\* A response text is a sequence of tokens, each standing for the characters
\* it is written with: the fence (three backticks), the tag json, one
\* whitespace character, the two braces, one JSON member ("k":1, five
\* characters), and a run of ProseLen letters.
FENCE == "fence"
TAG == "json"
WS == "ws"
LBRACE == "{"
RBRACE == "}"
MEMBER == "member"
PROSE == "prose"

ProseLen == 198

Tokens == {FENCE, TAG, WS, LBRACE, RBRACE, MEMBER, PROSE}

\* len() of a token, in characters.
TokLen(tok) ==
    CASE tok = FENCE -> 3
      [] tok = TAG -> 4
      [] tok = WS -> 1
      [] tok = LBRACE -> 1
      [] tok = RBRACE -> 1
      [] tok = MEMBER -> 5
      [] tok = PROSE -> ProseLen

\* len(text), in characters.
RECURSIVE CharLen(_)
CharLen(ts) == IF ts = <<>> THEN 0 ELSE TokLen(Head(ts)) + CharLen(Tail(ts))

\* text in place of text[:n]: no truncation.
RECURSIVE Prefix_Whole(_, _)
Prefix_Whole(ts, n) ==
    IF ts = <<>> THEN <<>>
    ELSE <<[tok |-> Head(ts), len |-> TokLen(Head(ts))]>> \o Prefix_Whole(Tail(ts), n)

\* text[:n]: the first n characters, as pieces (a token and how many of its
\* characters are kept); the last piece may be a token cut short.
RECURSIVE Prefix(_, _)
Prefix(ts, n) ==
    IF ts = <<>> \/ n <= 0 THEN <<>>
    ELSE IF TokLen(Head(ts)) <= n
         THEN <<[tok |-> Head(ts), len |-> TokLen(Head(ts))]>>
                 \o Prefix(Tail(ts), n - TokLen(Head(ts)))
         ELSE <<[tok |-> Head(ts), len |-> n]>>

\* ------------------------------------------------------------ _parse_json_response

NoMatch == [found |-> FALSE, from |-> 0, to |-> 0]
Match(a, b) == [found |-> TRUE, from |-> a, to |-> b]

\* \s* from position i: the first position at or after i that is not whitespace.
RECURSIVE SkipWs(_, _)
SkipWs(ts, i) ==
    IF i <= Len(ts) /\ ts[i] = WS THEN SkipWs(ts, i + 1) ELSE i

\* \s*``` from position i.
ClosesAt(ts, i) ==
    LET j == SkipWs(ts, i) IN j <= Len(ts) /\ ts[j] = FENCE

\* (\{.*?\})\s*``` with the opening brace at p: .*? is lazy, so the closing
\* brace is the first one, scanning from q, that a closing fence follows.
RECURSIVE LazyClose(_, _, _)
LazyClose(ts, p, q) ==
    IF q > Len(ts) THEN NoMatch
    ELSE IF ts[q] = RBRACE /\ ClosesAt(ts, q + 1) THEN Match(p, q)
    ELSE LazyClose(ts, p, q + 1)

\* The fence pattern tried at start position i.
FenceAt(ts, i) ==
    IF ts[i] # FENCE THEN NoMatch
    ELSE LET afterTag == IF i + 1 <= Len(ts) /\ ts[i + 1] = TAG THEN i + 2 ELSE i + 1
             p == SkipWs(ts, afterTag)
         IN IF p <= Len(ts) /\ ts[p] = LBRACE THEN LazyClose(ts, p, p + 1) ELSE NoMatch

\* re.search(r"```(?:json)?\s*(\{.*?\})\s*```", text, re.DOTALL): group 1 of
\* the match at the leftmost start position that has one.
RECURSIVE SearchFence(_, _)
SearchFence(ts, i) ==
    IF i > Len(ts) THEN NoMatch
    ELSE LET m == FenceAt(ts, i)
         IN IF m.found THEN m ELSE SearchFence(ts, i + 1)

\* The first position from i holding tok, or 0.
RECURSIVE FirstOf(_, _, _)
FirstOf(ts, tok, i) ==
    IF i > Len(ts) THEN 0
    ELSE IF ts[i] = tok THEN i ELSE FirstOf(ts, tok, i + 1)

\* The last position down from i (and above lo) holding tok, or 0.
RECURSIVE LastOf(_, _, _, _)
LastOf(ts, tok, i, lo) ==
    IF i <= lo THEN 0
    ELSE IF ts[i] = tok THEN i ELSE LastOf(ts, tok, i - 1, lo)

\* re.search(r"\{.*\}", text, re.DOTALL): .* is greedy, so the match runs
\* from the leftmost { to the last } after it.
SearchBraces(ts) ==
    LET a == FirstOf(ts, LBRACE, 1)
        b == IF a = 0 THEN 0 ELSE LastOf(ts, RBRACE, Len(ts), a)
    IN IF a # 0 /\ b # 0 THEN Match(a, b) ELSE NoMatch

NoValue == [none |-> TRUE]
NoDetail == <<>>

JsonValue(v) == [raised |-> "none", value |-> v, detail |-> NoDetail]
JsonDecodeError == [raised |-> "JSONDecodeError", value |-> NoValue, detail |-> NoDetail]
NoJsonValueError(d) == [raised |-> "ValueError", value |-> NoValue, detail |-> d]

\* json.loads(span) for a span of tokens: an object is {, optional whitespace,
\* at most one member, optional whitespace, }, and nothing may follow it.  The
\* value is the mapping read: its set of members.
json_loads(span) ==
    IF span = <<>> \/ span[1] # LBRACE THEN JsonDecodeError
    ELSE LET i == SkipWs(span, 2)
             hasMember == i <= Len(span) /\ span[i] = MEMBER
             j == IF hasMember THEN SkipWs(span, i + 1) ELSE i
         IN IF j = Len(span) /\ span[j] = RBRACE
            THEN JsonValue(IF hasMember THEN {MEMBER} ELSE {})
            ELSE JsonDecodeError

DetailLen == 200

\* _parse_json_response with the two searches in the other order.
parse_json_response_RawFirst(ts) ==
    LET fenced == SearchFence(ts, 1)
        raw == SearchBraces(ts)
    IN IF raw.found THEN json_loads(SubSeq(ts, raw.from, raw.to))
       ELSE IF fenced.found THEN json_loads(SubSeq(ts, fenced.from, fenced.to))
       ELSE NoJsonValueError(Prefix(ts, DetailLen))

\* _parse_json_response(text)
parse_json_response(ts) ==
    LET fenced == SearchFence(ts, 1)
        raw == SearchBraces(ts)
    IN IF fenced.found THEN json_loads(SubSeq(ts, fenced.from, fenced.to))
       ELSE IF raw.found THEN json_loads(SubSeq(ts, raw.from, raw.to))
       ELSE NoJsonValueError(Prefix(ts, DetailLen))

\* ------------------------------------------------------------ decode_receipt_qr

QRCODE == "QRCODE"

\* A code found by the barcode library: its type and its data, which either
\* decodes as UTF-8 to a string cs or does not decode.
Code(type, utf8, cs) == [type |-> type, utf8 |-> utf8, cs |-> cs]
NoCode == [type |-> "none", utf8 |-> FALSE, cs |-> <<>>]

\* text.split("*"): the pieces between the stars, empty pieces included.
RECURSIVE Split(_)
Split(cs) ==
    LET star == FirstOf(cs, "*", 1)
    IN IF star = 0 THEN <<cs>>
       ELSE <<SubSeq(cs, 1, star - 1)>> \o Split(SubSeq(cs, star + 1, Len(cs)))

\* if len(parts) < 4: continue
MinParts == 4

\* The dict with the date and time positions mixed up.
QrPayload_Swapped(parts, amount) ==
    [fp_number |-> Chars(parts[1]), receipt_number |-> Chars(parts[2]),
     date |-> Chars(parts[4]), time |-> Chars(parts[3]),
     amount |-> IF Len(parts) > 4 THEN Num(amount) ELSE Null]

\* The dict the loop body returns, with the amount already converted.
QrPayload(parts, amount) ==
    [fp_number |-> Chars(parts[1]), receipt_number |-> Chars(parts[2]),
     date |-> Chars(parts[3]),
     time |-> IF Len(parts) > 3 THEN Chars(parts[4]) ELSE Null,
     amount |-> IF Len(parts) > 4 THEN Num(amount) ELSE Null]

QrPending == [kind |-> "pending"]
QrNone == [kind |-> "none"]
QrDict(d) == [kind |-> "dict", dict |-> d]
QrRaised(e) == [kind |-> "raised", exception |-> e]

\* One pass through the loop body for a code: what happens next ("continue",
\* "return" or "raise"), the value returned or raised, and whether text is
\* assigned afterwards.  The except clause catches ValueError (of which
\* UnicodeDecodeError is a subclass) and logs text: when text was never
\* assigned, that read raises UnboundLocalError out of the function.
LoopBody(code, text_bound) ==
    IF code.type # QRCODE
    THEN [next |-> "continue", result |-> QrPending, text_bound |-> text_bound]
    ELSE IF ~code.utf8
    THEN IF text_bound
         THEN [next |-> "continue", result |-> QrPending, text_bound |-> TRUE]
         ELSE [next |-> "raise", result |-> QrRaised("UnboundLocalError"),
               text_bound |-> FALSE]
    ELSE LET parts == Split(code.cs)
         IN IF Len(parts) < MinParts
            THEN [next |-> "continue", result |-> QrPending, text_bound |-> TRUE]
            ELSE LET amount == IF Len(parts) > 4 THEN Float(Chars(parts[5]))
                               ELSE [raised |-> "none", value |-> 0]
                 IN IF amount.raised # "none"
                    THEN [next |-> "continue", result |-> QrPending, text_bound |-> TRUE]
                    ELSE [next |-> "return",
                          result |-> QrDict(QrPayload(parts, amount.value)),
                          text_bound |-> TRUE]

\* ------------------------------------------------------------ parse_receipt

\* The keys of _PROVIDERS, in the order the dict holds them.
PROVIDERS == <<"claude", "gemini", "grok">>

\* os.environ.get("VISION_PROVIDER", "claude")
DefaultProvider == "claude"

\* The two positional arguments parse_receipt hands to an adapter.
IMAGE_BYTES == [t |-> "bytes"]
MIME_TYPE == Str("image/jpeg")

\* A list of vocabulary strings passed as a value.
List(L) == [t |-> "list", items |-> L]

\* What a provider's API does: it fails, or it answers with a response text.
ApiError == [ok |-> FALSE, text |-> <<>>]
ApiText(ts) == [ok |-> TRUE, text |-> ts]

\* The message with the first provider only.
Join_First(names) ==
    IF names = <<>> THEN <<>> ELSE <<Head(names)>>

\* ", ".join(names)
RECURSIVE Join(_)
Join(names) ==
    IF names = <<>> THEN <<>>
    ELSE IF Len(names) = 1 THEN names
    ELSE <<Head(names), ", ">> \o Join(Tail(names))

\* An exception: its class and what it carries (message pieces or detail).
Exception(type, message) == [type |-> type, message |-> message]

\* raise ValueError(f"Unknown provider '{provider}'. Choose from: {', '.join(_PROVIDERS)}")
UnknownProviderError(provider) ==
    Exception("ValueError",
              <<"Unknown provider '", provider, "'. Choose from: ">> \o Join(PROVIDERS))

PrPending == [kind |-> "pending"]
PrReturned(v) == [kind |-> "returned", value |-> v]
PrRaised(e) == [kind |-> "raised", exception |-> e]

\* A mapping with no key at all: json.loads("{}").
EmptyMapping ==
    [category |-> Missing, payment_method |-> Missing, bulstat |-> Missing,
     total_eur |-> Missing, date |-> Missing, notes |-> Missing,
     card_last4 |-> Missing]

\* _PROVIDERS: the adapter registered under each name.
Registry ==
    [name \in {"claude", "gemini", "grok"} |->
        CASE name = "claude" -> "_parse_with_claude"
          [] name = "gemini" -> "_parse_with_gemini"
          [] name = "grok" -> "_parse_with_grok"]

NoFn == "None"

\* The lookup that falls back to the first registered adapter.
AdapterFor_First(provider) ==
    IF provider \in DOMAIN Registry THEN Registry[PROVIDERS[1]] ELSE NoFn

\* parse_fn = _PROVIDERS.get(provider)
AdapterFor(provider) ==
    IF provider \in DOMAIN Registry THEN Registry[provider] ELSE NoFn

\* An adapter _parse_with_<name>(image_bytes, mime_type): the provider's API
\* either fails or answers with a response text, which goes through
\* _parse_json_response; content is the mapping written in the text's JSON
\* member.
Adapter(api, content) ==
    IF ~api.ok
    THEN PrRaised(Exception("APIError", <<>>))
    ELSE LET x == parse_json_response(api.text)
         IN IF x.raised # "none"
            THEN PrRaised(Exception(x.raised, x.detail))
            ELSE PrReturned(IF MEMBER \in x.value THEN content ELSE EmptyMapping)

\* return _validate_receipt_data(raw)
ValidateRaw(raw) ==
    LET v == validate_receipt_data(raw)
    IN IF v.raised # "none" THEN PrRaised(Exception(v.raised, <<>>))
       ELSE PrReturned(v.receipt)

\* The calls composed: decode_receipt_qr(image_bytes) for an image in which
\* the barcode library finds the given codes.
RECURSIVE ScanCodes(_, _, _)
ScanCodes(codes, i, text_bound) ==
    IF i > Len(codes) THEN QrNone
    ELSE LET b == LoopBody(codes[i], text_bound)
         IN IF b.next = "continue" THEN ScanCodes(codes, i + 1, b.text_bound)
            ELSE b.result

decode_receipt_qr(env, codes) ==
    IF env # "ok" THEN QrNone ELSE ScanCodes(codes, 1, FALSE)

\* parse_receipt(image_bytes, mime_type, provider=...) as one call.
parse_receipt(call, env, api, content) ==
    IF call.categories # Missing THEN PrRaised(Exception("TypeError", <<>>))
    ELSE LET provider == IF call.provider = Null
                         THEN GetDefault(env, Str(DefaultProvider))
                         ELSE call.provider
         IN IF AdapterFor(provider.s) = NoFn
            THEN PrRaised(UnknownProviderError(provider.s))
            ELSE LET r == Adapter(api, content)
                 IN IF r.kind = "raised" THEN r ELSE ValidateRaw(r.value)

\* ------------------------------------------------------------ config.py: the sheet row

SHEET_COLUMNS ==
    << "Data", "Kategoriya", "Tsena lv", "Tsena EUR", "GGBG lv", "Plashtane",
       "Dopaln. taksa", "Payback", "Poyasneniya", "BULSTAT" >>

\* Two decimal digits of a number below 100.
TwoDigits(n) ==
    LET ds == NatDigits(n) IN IF Len(ds) = 1 THEN <<"0">> \o ds ELSE ds

\* f"{x:.2f}".replace(".", ",") for an amount x counted in hundredths.
FormatAmount(h) ==
    LET a == IF h < 0 THEN -h ELSE h
    IN (IF h < 0 THEN <<"-">> ELSE <<>>)
          \o NatDigits(a \div 100) \o <<",">> \o TwoDigits(a % 100)

\* total_bgn: round(total_eur * 1.95583, 2), in hundredths.
TotalBgn(h) ==
    LET a == IF h < 0 THEN -h ELSE h
        r == (a * 195583 + 50000) \div 100000
    IN IF h < 0 THEN -r ELSE r

\* x or "" for an optional string.
OrEmpty(v) == IF Truthy(v) THEN v ELSE Str("")

\* ReceiptData.to_sheet_row()
to_sheet_row(r) ==
    << r.date, r.category, Chars(FormatAmount(TotalBgn(r.total_eur))),
       Chars(FormatAmount(r.total_eur)), Str(""), OrEmpty(r.payment_method),
       Str(""), Str(""), r.notes, OrEmpty(r.bulstat) >>

\* ------------------------------------------------------------ sheets.py

\* A sheet is the sequence of its rows with data; a row is its cells and an
\* identity id that tells the rows apart when their positions shift.
Row(id, cells) == [id |-> id, cells |-> cells]

HeaderRow == Row(0, [i \in 1..Len(SHEET_COLUMNS) |-> Str(SHEET_COLUMNS[i])])

\* list.index(x): the first position of x (counted from 1), 0 when absent.
IndexOf(cells, x) ==
    IF \E i \in 1..Len(cells) : cells[i] = x
    THEN CHOOSE i \in 1..Len(cells) : cells[i] = x /\ \A j \in 1..(i - 1) : cells[j] # x
    ELSE 0

\* ws.append_row(row): the row goes after the last row with data.
append_row(ws, row) == Append(ws, row)

\* len(ws.get_all_values())
row_count(ws) == Len(ws)

\* ws.delete_rows(row): the rows below move up; a position below the data is
\* an empty row of the grid, and deleting it changes no data.
delete_rows(ws, n) ==
    IF n \in 1..Len(ws)
    THEN SubSeq(ws, 1, n - 1) \o SubSeq(ws, n + 1, Len(ws))
    ELSE ws

\* A row of the grid without data; it is no appended row (id -1).
BlankRow == Row(-1, [i \in 1..Len(SHEET_COLUMNS) |-> Str("")])

\* ws.update_cell(row, col, value): the cell of the grid is set.  Below the
\* rows with data the grid holds empty rows, so a cell written there makes
\* its row, and the empty rows above it, part of ws.get_all_values().
update_cell_at(ws, n, col, value) ==
    LET last == IF n > Len(ws) THEN n ELSE Len(ws)
        grid == [i \in 1..last |-> IF i <= Len(ws) THEN ws[i] ELSE BlankRow]
    IN [grid EXCEPT ![n].cells[col] = value]

\* categories[cat] = categories.get(cat, 0) + 1 on a dict kept as the sequence
\* of its entries in the order the keys were first inserted.
Bump(categories, cat) ==
    IF \E i \in 1..Len(categories) : categories[i].cat = cat
    THEN [i \in 1..Len(categories) |->
             IF categories[i].cat = cat
             THEN [cat |-> cat, count |-> categories[i].count + 1]
             ELSE categories[i]]
    ELSE Append(categories, [cat |-> cat, count |-> 1])

\* for row in rows[1:], from position n on: a row counts when it reaches the
\* tax id column and holds the tax id there, and reaches the category column
\* and holds a non-empty category there.  Columns are counted from 1.
RECURSIVE Tally(_, _, _, _, _, _)
Tally(ws, n, bcol, ccol, bulstat, categories) ==
    IF n > Len(ws) THEN categories
    ELSE LET row == ws[n].cells
         IN Tally(ws, n + 1, bcol, ccol, bulstat,
                  IF /\ Len(row) >= bcol /\ row[bcol] = bulstat
                     /\ Len(row) >= ccol /\ Truthy(row[ccol])
                  THEN Bump(categories, row[ccol])
                  ELSE categories)

\* max(...) returning the last of the entries with the highest count.
MaxByCount_Last(categories) ==
    CHOOSE i \in 1..Len(categories) :
        /\ \A j \in 1..Len(categories) : categories[j].count <= categories[i].count
        /\ \A j \in (i + 1)..Len(categories) : categories[j].count < categories[i].count

\* max(categories, key=categories.get): the entries are met in insertion
\* order and a later entry replaces the best only with a higher count.
MaxByCount(categories) ==
    CHOOSE i \in 1..Len(categories) :
        /\ \A j \in 1..Len(categories) : categories[j].count <= categories[i].count
        /\ \A j \in 1..(i - 1) : categories[j].count < categories[i].count

\* lookup_category_by_bulstat(bulstat)
lookup_category_by_bulstat(ws, bulstat) ==
    IF ~Truthy(bulstat) \/ Len(ws) < 2 THEN Null
    ELSE LET bcol == IndexOf(ws[1].cells, Str("BULSTAT"))
             ccol == IndexOf(ws[1].cells, Str("Kategoriya"))
         IN IF bcol = 0 \/ ccol = 0 THEN Null
            ELSE LET categories == Tally(ws, 2, bcol, ccol, bulstat, <<>>)
                 IN IF categories = <<>> THEN Null
                    ELSE categories[MaxByCount(categories)].cat

\* What the outside does to a sheets.py call: it goes through ("ok"), it
\* fails before anything is written ("fail"), or, for append_expense, the row
\* is written and the count of the rows that follows fails ("fail_counting").
\* append_expense(receipt): the row number returned is the count of the rows
\* after the append.
append_expense(ws, receipt, id, outcome) ==
    LET written == append_row(ws, Row(id, to_sheet_row(receipt)))
    IN CASE outcome = "ok" ->
              [raised |-> FALSE, sheet |-> written, row |-> row_count(written)]
         [] outcome = "fail" -> [raised |-> TRUE, sheet |-> ws, row |-> 0]
         [] outcome = "fail_counting" -> [raised |-> TRUE, sheet |-> written, row |-> 0]

\* delete_row(row)
delete_row(ws, n, outcome) ==
    IF outcome = "ok" THEN [raised |-> FALSE, sheet |-> delete_rows(ws, n)]
    ELSE [raised |-> TRUE, sheet |-> ws]

\* SHEET_COLUMNS.index(column_name), counted from 0; -1 when it is not in
\* the list (the code tests that with "not in" before it calls index).
ColumnIndex(column_name) ==
    IndexOf([i \in 1..Len(SHEET_COLUMNS) |-> Str(SHEET_COLUMNS[i])],
            Str(column_name)) - 1

\* update_cell with col_idx = SHEET_COLUMNS.index(column_name), without + 1.
update_cell_ZeroBased(ws, n, column_name, value, outcome) ==
    LET col_idx == ColumnIndex(column_name)
    IN IF col_idx = -1
       THEN [raised |-> "ValueError", sheet |-> ws, accessed |-> FALSE]
       ELSE IF outcome # "ok"
       THEN [raised |-> "APIError", sheet |-> ws, accessed |-> TRUE]
       ELSE [raised |-> "none", accessed |-> TRUE,
             sheet |-> IF col_idx = 0 THEN ws
                       ELSE update_cell_at(ws, n, col_idx, Str(value))]

\* update_cell(row, column_name, value): ValueError for an unknown column,
\* before _get_worksheet() is called (accessed tells whether it was).
update_cell(ws, n, column_name, value, outcome) ==
    LET col_idx == ColumnIndex(column_name) + 1
    IN IF ColumnIndex(column_name) = -1
       THEN [raised |-> "ValueError", sheet |-> ws, accessed |-> FALSE]
       ELSE IF outcome # "ok"
       THEN [raised |-> "APIError", sheet |-> ws, accessed |-> TRUE]
       ELSE [raised |-> "none", accessed |-> TRUE,
             sheet |-> update_cell_at(ws, n, col_idx, Str(value))]

\* ------------------------------------------------------------ main.py: auth_middleware

\* A character outside ASCII, as a header byte above 0x7f decodes to.
NonAscii == "U+00E9"

BearerPrefix == <<"B", "e", "a", "r", "e", "r", " ">>

\* s.startswith(prefix)
StartsWith(cs, prefix) ==
    Len(cs) >= Len(prefix) /\ SubSeq(cs, 1, Len(prefix)) = prefix

\* s.removeprefix(prefix)
RemovePrefix(cs, prefix) ==
    IF StartsWith(cs, prefix) THEN SubSeq(cs, Len(prefix) + 1, Len(cs)) ELSE cs

IsAscii(cs) == \A i \in 1..Len(cs) : cs[i] # NonAscii

\* hmac.compare_digest(a, b) on two str: TypeError when either holds a
\* character outside ASCII.
compare_digest(a, b) ==
    IF IsAscii(a) /\ IsAscii(b)
    THEN [raised |-> "none", equal |-> a = b]
    ELSE [raised |-> "TypeError", equal |-> FALSE]

\* A path as its segments: /api/upload is <<"api", "upload">>.
\* request.url.path.startswith("/api/")
IsApiPath(path) == Len(path) >= 2 /\ path[1] = "api"

Response(status, detail) == [status |-> status, detail |-> detail]
NoResponse == Response(0, "")

\* call_next(request): the request goes on to its handler.
CallNext == Response(0, "call_next")

\* auth_middleware(request, call_next): the response it returns itself, or
\* CallNext.  An exception of the middleware is answered 500 by the server.
auth_middleware(AUTH_TOKEN, path, header) ==
    IF AUTH_TOKEN # <<>> /\ IsApiPath(path)
    THEN LET auth_header == GetDefault(header, Chars(<<>>)).cs
         IN IF ~StartsWith(auth_header, BearerPrefix)
            THEN Response(401, "Unauthorized")
            ELSE LET c == compare_digest(RemovePrefix(auth_header, BearerPrefix),
                                         AUTH_TOKEN)
                 IN IF c.raised # "none" THEN Response(500, "Internal Server Error")
                    ELSE IF ~c.equal THEN Response(401, "Invalid token")
                    ELSE CallNext
    ELSE CallNext

\* ------------------------------------------------------------ main.py: the handlers

\* The HTTPException raised when parse_receipt fails, answered 500.
ParseFailure_ServerError == Response(500, "Failed to parse receipt")

\* raise HTTPException(status_code=422, detail=f"Failed to parse receipt: {e}")
ParseFailure == Response(422, "Failed to parse receipt")

\* qr_data as the handler holds it: None or the dict.
QrData(q) == IF q.kind = "dict" THEN q.dict ELSE Null

\* if qr_data and qr_data.get("amount") is not None: the warnings logged when
\* abs(receipt.total_eur - qr_data["amount"]) > 0.01.
CrossCheck(receipt, qr_data) ==
    IF qr_data # Null /\ qr_data.amount # Null
    THEN LET d == receipt.total_eur - qr_data.amount.n
             diff == IF d < 0 THEN -d ELSE d
         IN IF diff > 1 THEN <<[qr |-> qr_data.amount.n, ai |-> receipt.total_eur,
                                 diff |-> diff]>>
            ELSE <<>>
    ELSE <<>>

\* The auto-mapping that overrides whatever category was parsed.
AutoMap_Always(receipt, historical_cat) ==
    IF Truthy(historical_cat)
    THEN [receipt EXCEPT !.category = historical_cat]
    ELSE receipt

\* if historical_cat and receipt.category == "Разни": receipt.category = historical_cat
AutoMap(receipt, historical_cat) ==
    IF Truthy(historical_cat) /\ receipt.category = Str(DefaultCategory)
    THEN [receipt EXCEPT !.category = historical_cat]
    ELSE receipt

\* The register is written before the append is known to have succeeded.
RegisterAfter_Eager(register, a, ws) ==
    Num(row_count(ws) + 1)

\* try: row_number = append_expense(receipt); _last_written_row = row_number
RegisterAfter(register, a, ws) ==
    IF a.raised THEN register ELSE Num(a.row)

\* undo_last with _last_written_row = None put before delete_row(...).
RegisterAfterUndo_Early(register, d) == Null

\* undo_last: _last_written_row = None follows delete_row(_last_written_row)
\* inside the try, so it is skipped when the delete raises.
RegisterAfterUndo(register, d) == IF d.raised THEN register ELSE Null

\* The body that reports the QR amount as the total when there is one.
Written_QrTotal(row, receipt, extra) ==
    [status |-> 200, detail |-> "", row |-> row,
     data |-> [date |-> receipt.date,
               total_eur |-> IF "qr" \in DOMAIN extra /\ extra.qr # Null
                                  /\ extra.qr.amount # Null
                             THEN extra.qr.amount.n ELSE receipt.total_eur,
               total_bgn |-> TotalBgn(receipt.total_eur),
               category |-> receipt.category,
               payment_method |-> receipt.payment_method,
               notes |-> receipt.notes],
     extra |-> extra]

\* The body returned with a row: the row number and the record (upload adds
\* bulstat and qr).
Written(row, receipt, extra) ==
    [status |-> 200, detail |-> "", row |-> row,
     data |-> [date |-> receipt.date, total_eur |-> receipt.total_eur,
               total_bgn |-> TotalBgn(receipt.total_eur),
               category |-> receipt.category,
               payment_method |-> receipt.payment_method,
               notes |-> receipt.notes],
     extra |-> extra]

\* ------------------------------------------------------------ inputs

MaxTaxLen == 3

TaxChars == {"1", "2", "-"}

CategoryInputs == {Missing, Null, Str("Hrana"), Str("Razni"), Str("Anything")}
PaymentInputs == {Missing, Null, Str(""), Str("Cash"), Str("Bitcoin")}
BulstatInputs ==
    {Missing, Null, Num(0)} \cup {Chars(cs) : cs \in SeqsUpTo(TaxChars, MaxTaxLen)}
TotalInputs ==
    {Missing, Null, Num(2345), Num(-500), Chars(<<"7">>), Chars(<<"a", "b", "c">>)}
DateInputs == {Missing, Str("15.02.2026")}
NotesInputs == {Missing}
CardInputs ==
    {Missing, Chars(<<"*", "*", "0", "8", "8", "9">>), Chars(<<"1", "2", "3", "4", "5">>)}

\* The category lists the callers pass (tests/test_receipt_parser.py).
CategoryLists == {<<"Hrana", "Razni">>, <<"Hrana", "Kozmetika", "Razni">>}

ArgInputs == {NoArgs} \cup {<<L>> : L \in CategoryLists}

RawMappings ==
    [category : CategoryInputs, payment_method : PaymentInputs,
     bulstat : BulstatInputs, total_eur : TotalInputs, date : DateInputs,
     notes : NotesInputs, card_last4 : CardInputs]

MaxPayloadLen == 9
MaxCodes == 2

PayloadChars == {"*", "a", "2"}

\* The codes the barcode library can hand over: QR codes with any payload or
\* with bytes that are not UTF-8, and codes of another type.
CodeInputs ==
    {Code(QRCODE, TRUE, cs) : cs \in SeqsUpTo(PayloadChars, MaxPayloadLen)}
        \cup {Code(QRCODE, FALSE, <<>>)}
        \cup {Code("EAN13", TRUE, <<"*", "*", "*", "*", "2">>), Code("EAN13", FALSE, <<>>)}

\* How the import and the image decoding end.
QrEnvironments == {"ImportError", "OpenError", "ok"}

NotCalled == [raised |-> "pending", receipt |-> NoReceipt]

MaxTextLen == 5

Texts == SeqsUpTo(Tokens, MaxTextLen)

NotExtracted == [raised |-> "pending", value |-> NoValue, detail |-> NoDetail]

\* The calls made of parse_receipt: the provider argument (None when it is
\* left out) and the categories keyword the tests pass.
ProviderInputs == {Null, Str("claude"), Str("gemini"), Str("grok"), Str("unknown"), Str("")}
CategoriesInputs == {Missing} \cup {List(L) : L \in CategoryLists}
ParseCalls == [provider : ProviderInputs, categories : CategoriesInputs]

\* The VISION_PROVIDER environment variable.
EnvInputs == {Missing, Str("gemini"), Str("openai")}

ApiOutcomes ==
    {ApiError} \cup
    {ApiText(ts) : ts \in
        {<<PROSE>>, <<LBRACE, RBRACE>>, <<LBRACE, MEMBER, RBRACE>>,
         <<LBRACE, PROSE, RBRACE>>, <<LBRACE, MEMBER>>,
         <<FENCE, TAG, WS, LBRACE, MEMBER, RBRACE, WS, FENCE>>}}

\* The mappings a model writes in its answer.
ModelOutputs ==
    {[EmptyMapping EXCEPT !.category = c, !.total_eur = t, !.bulstat = b] :
        c \in {Str("Hrana"), Str("NonExistent")},
        t \in {Num(2345), Chars(<<"a", "b", "c">>)},
        b \in {Missing, Chars(<<"1", "2">>)}}

MaxRequests == 2

AuthTokens == {<<>>, <<"p", "i", "n">>}

\* The Authorization headers sent: none, the token, another token, another
\* scheme, and a token with a byte above 0x7f.
Headers ==
    {Missing, Chars(BearerPrefix \o <<"p", "i", "n">>),
     Chars(BearerPrefix \o <<"p", "i", "x">>),
     Chars(<<"B", "a", "s", "i", "c", " ", "p", "i", "n">>),
     Chars(BearerPrefix \o <<"p", NonAscii>>)}

\* The URL path of a route.
PathOf(kind) ==
    CASE kind = "upload" -> <<"api", "upload">>
      [] kind = "manual" -> <<"api", "manual">>
      [] kind = "update" -> <<"api", "entry", "{row}">>
      [] kind = "delete" -> <<"api", "entry", "{row}">>
      [] kind = "undo" -> <<"api", "undo">>
      [] kind = "config" -> <<"api", "config">>
      [] kind = "frontend" -> <<"index.html">>

ManualBody ==
    [date |-> Str("15.02.2026"), total_eur |-> 1000, category |-> Str("Bebe"),
     payment_method |-> Str(""), notes |-> Str("")]

\* A content type is its type and subtype: image/jpeg is <<"image", "jpeg">>.
\* file.content_type.startswith("image/")
IsImage(content_type) == content_type # <<>> /\ content_type[1] = "image"

Request(kind, header, content_type, provider, row, column) ==
    [kind |-> kind, header |-> header, content_type |-> content_type,
     provider |-> provider, row |-> row, column |-> column]

NoRequest == Request("none", Missing, <<>>, Null, 0, "")

\* What a handler is called with: the parameters it declares, not the headers.
HandlerArgs(req) == [req EXCEPT !.header = Missing]

\* The requests a client can send when the sheet has n rows: row numbers run
\* up to the first empty row.
Requests(n) ==
    {Request("upload", h, ct, pv, 0, "") :
        h \in Headers, ct \in {<<"image", "jpeg">>, <<"text", "plain">>},
        pv \in {Null, Str("unknown")}}
    \cup {Request(k, h, <<>>, Null, 0, "") :
            k \in {"manual", "undo", "config", "frontend"}, h \in Headers}
    \cup {Request("delete", h, <<>>, Null, r, "") : h \in Headers, r \in 1..(n + 1)}
    \cup {Request("update", h, <<>>, Null, 2, c) :
            h \in Headers, c \in {"Kategoriya", "Poyasneniya", "BadColumn"}}

\* What the barcode library finds in an uploaded image.
UploadCodes ==
    {<<>>, <<Code(QRCODE, FALSE, <<>>)>>,
     <<Code("EAN13", TRUE, <<"2">>),
       Code(QRCODE, TRUE, <<"a", "*", "a", "*", "a", "*", "a">>)>>,
     <<Code(QRCODE, TRUE, <<"a", "*", "a", "*", "a", "*", "a", "*", "2">>)>>}

UploadApiOutcomes ==
    {ApiError, ApiText(<<PROSE>>), ApiText(<<LBRACE, PROSE, RBRACE>>),
     ApiText(<<LBRACE, MEMBER, RBRACE>>)}

\* The mappings a model writes for an uploaded receipt.
UploadOutput(c, t, b) ==
    [EmptyMapping EXCEPT !.date = Str("15.02.2026"), !.category = c,
                         !.total_eur = t, !.bulstat = b]

UploadOutputs ==
    {UploadOutput(Str("Razni"), Num(200), Chars(<<"1", "2">>)),
     UploadOutput(Str("Bebe"), Num(2345), Chars(<<"1", "2">>)),
     UploadOutput(Str("Razni"), Num(2345), Missing),
     UploadOutput(Str("Razni"), Chars(<<"a", "b", "c">>), Missing)}

SheetsOutcomes == {"ok", "fail"}
AppendOutcomes == {"ok", "fail", "fail_counting"}

\* A row written before the server started.
HistoryRow ==
    Row(1, to_sheet_row(ReceiptData(Str("01.02.2026"), 500, Str("Hrana"), Null,
                                    Str(""), Chars(<<"1", "2">>))))

\* The row manual_entry writes for ManualBody.
ManualRow(id) ==
    Row(id, to_sheet_row(ReceiptData(ManualBody.date, ManualBody.total_eur,
                                     ManualBody.category, Null, ManualBody.notes,
                                     Null)))

\* The sheet, the register and the identities in use when the server has just
\* started, and when one manual entry has gone through since.
ServerStates ==
    {[sheet |-> <<HeaderRow, HistoryRow>>, register |-> Null,
      next_id |-> 2, appended |-> 0, pending |-> FALSE],
     [sheet |-> <<HeaderRow, HistoryRow, ManualRow(2)>>, register |-> Num(3),
      next_id |-> 3, appended |-> 2, pending |-> TRUE]}

NoSnapshot == [sheet |-> <<>>, register |-> Null, pending |-> FALSE]

\* The records the program builds rows from.  The payment methods are those
\* the validator lets through; manual_entry passes a string or None.
RowPayments == {ValidPayment([payment_method |-> p]) : p \in PaymentInputs \cup {Num(0)}}

RowRecords ==
    {ReceiptData(d, t, c, p, n, b) :
        d \in {Str(""), Str("15.02.2026")}, t \in {0, 2345, -500},
        c \in {Str("Hrana"), Str("Razni"), Str("Bebe")}, p \in RowPayments,
        n \in {Null, Str(""), Str("hlyab, mlyako")},
        b \in {Null, Chars(<<"1", "2">>)}}

\* The requests that run append_expense at the same time: manual_entry is a
\* plain def, which the server runs in a thread of its pool, one per request.
Appenders == {1, 2}

\* The identity of the row a request writes.
RowIdOf(t) == 10 + t

\* The worksheets the requests meet and the receipts they write.
AppendSheets == {<<HeaderRow>>, <<HeaderRow, HistoryRow>>,
                 <<HeaderRow, HistoryRow, ManualRow(2)>>}

AppendReceipts ==
    {ReceiptData(Str("15.02.2026"), t, c, Null, Str(""), Null) :
        t \in {1000, 2345}, c \in {Str("Hrana"), Str("Bebe")}}

\* The sheets the lookup reads.  A data row of the full layout holds a
\* category and a tax id; a row cut short ends before the tax id column.
MaxLookupRows == 3

LookupCells(cat, tax) ==
    [i \in 1..Len(SHEET_COLUMNS) |->
        IF i = 2 THEN cat ELSE IF i = Len(SHEET_COLUMNS) THEN tax ELSE Str("")]

LookupRows ==
    {Row(1, LookupCells(c, b)) :
        c \in {Str("Hrana"), Str("Bebe"), Str("")},
        b \in {Chars(<<"1", "2">>), Chars(<<"9", "9">>), Str("")}}
    \cup {Row(1, SubSeq(LookupCells(Str("Hrana"), Str("")), 1, 2))}

LookupSheets ==
    {<<>>}
    \cup {<<HeaderRow>> \o rows : rows \in SeqsUpTo(LookupRows, MaxLookupRows)}
    \cup {<<Row(0, <<Str("Data"), Str("Kategoriya"), Str("Tsena lv")>>),
            Row(1, <<Str("01.01.2026"), Str("Hrana"), Str("19,56")>>)>>,
          <<Row(0, <<Str("Data"), Str("BULSTAT")>>),
            Row(1, <<Str("01.01.2026"), Chars(<<"1", "2">>)>>)>>}

LookupBulstats == {Null, Str(""), Chars(<<"1", "2">>)}

\* ------------------------------------------------------------ components at rest

ValidatorIdle ==
    /\ data = [category |-> Missing, payment_method |-> Missing, bulstat |-> Missing,
               total_eur |-> Missing, date |-> Missing, notes |-> Missing,
               card_last4 |-> Missing]
    /\ call_args = NoArgs
    /\ validated = NotCalled
    /\ v_pc = "idle"

ExtractorIdle ==
    /\ text = <<>>
    /\ extracted = NotExtracted
    /\ x_pc = "idle"

QrIdle ==
    /\ qr_pc = "start"
    /\ qr_idx = 0
    /\ qr_code = NoCode
    /\ qr_text_bound = FALSE
    /\ qr_result = QrPending

ParseIdle ==
    /\ pr_call = [provider |-> Null, categories |-> Missing]
    /\ pr_env = Missing
    /\ pr_pc = "idle"
    /\ pr_provider = Null
    /\ pr_fn = NoFn
    /\ pr_invocations = <<>>
    /\ pr_adapter = PrPending
    /\ pr_result = PrPending

HttpIdle ==
    /\ auth_token = <<>>
    /\ sheet = <<HeaderRow>>
    /\ last_written_row = Null
    /\ h_pc = "idle"
    /\ h_request = NoRequest
    /\ h_response = NoResponse
    /\ h_ran = FALSE
    /\ h_ops = <<>>
    /\ h_log = <<>>
    /\ h_qr_data = Null
    /\ h_parsed = PrPending
    /\ h_receipt = Null
    /\ h_hist = Null
    /\ h_count = 0
    /\ h_next_id = 2
    /\ h_appended = 0
    /\ h_pending = FALSE
    /\ h_before = NoSnapshot

RowIdle ==
    /\ rw_record = Null
    /\ rw_row = <<>>
    /\ rw_pc = "idle"

AppendIdle ==
    /\ ap_sheet = <<HeaderRow>>
    /\ ap_receipt = <<>>
    /\ ap_pc = <<>>
    /\ ap_row = <<>>

LookupIdle ==
    /\ lk_sheet = <<>>
    /\ lk_bulstat = Null
    /\ lk_result = Null
    /\ lk_pc = "idle"

LedgerIdle == RowIdle /\ AppendIdle /\ LookupIdle

\* ------------------------------------------------------------ the validator's runs

InitValidate ==
    /\ data \in RawMappings
    /\ call_args \in ArgInputs
    /\ validated = NotCalled
    /\ v_pc = "idle"
    /\ ExtractorIdle
    /\ QrIdle
    /\ ParseIdle
    /\ HttpIdle
    /\ LedgerIdle

Validate ==
    /\ v_pc = "idle"
    /\ validated' = CallValidate(data, call_args)
    /\ v_pc' = "done"
    /\ UNCHANGED <<data, call_args>>
    /\ UNCHANGED <<extractor_vars, qr_vars, parse_vars, http_vars, ledger_vars>>

NextValidate == Validate

SpecValidate == InitValidate /\ [][NextValidate]_vars

\* ------------------------------------------------------------ the extractor's runs

InitExtract ==
    /\ text \in Texts
    /\ extracted = NotExtracted
    /\ x_pc = "idle"
    /\ ValidatorIdle
    /\ QrIdle
    /\ ParseIdle
    /\ HttpIdle
    /\ LedgerIdle

Extract ==
    /\ x_pc = "idle"
    /\ extracted' = parse_json_response(text)
    /\ x_pc' = "done"
    /\ UNCHANGED text
    /\ UNCHANGED <<validator_vars, qr_vars, parse_vars, http_vars, ledger_vars>>

NextExtract == Extract

SpecExtract == InitExtract /\ [][NextExtract]_vars

\* ------------------------------------------------------------ the QR decoder's runs

InitQr ==
    /\ QrIdle
    /\ ValidatorIdle
    /\ ExtractorIdle
    /\ ParseIdle
    /\ HttpIdle
    /\ LedgerIdle

\* The imports and the decoding of the image: a missing library or an
\* unreadable image returns None, otherwise the loop over the codes starts.
QrStart ==
    /\ qr_pc = "start"
    /\ \E env \in QrEnvironments :
          IF env = "ok"
          THEN qr_pc' = "loop" /\ qr_result' = qr_result
          ELSE qr_pc' = "done" /\ qr_result' = QrNone
    /\ UNCHANGED <<qr_idx, qr_code, qr_text_bound>>
    /\ UNCHANGED <<validator_vars, extractor_vars, parse_vars, http_vars, ledger_vars>>

\* for code in codes: the next code is taken.
QrFetch ==
    /\ qr_pc = "loop"
    /\ qr_idx < MaxCodes
    /\ \E c \in CodeInputs : qr_code' = c
    /\ qr_idx' = qr_idx + 1
    /\ qr_pc' = "body"
    /\ UNCHANGED <<qr_text_bound, qr_result>>
    /\ UNCHANGED <<validator_vars, extractor_vars, parse_vars, http_vars, ledger_vars>>

\* The list of codes is exhausted: return None.
QrExhausted ==
    /\ qr_pc = "loop"
    /\ qr_pc' = "done"
    /\ qr_result' = QrNone
    /\ qr_code' = NoCode
    /\ UNCHANGED <<qr_idx, qr_text_bound>>
    /\ UNCHANGED <<validator_vars, extractor_vars, parse_vars, http_vars, ledger_vars>>

\* The loop body for the code taken.
QrBody ==
    /\ qr_pc = "body"
    /\ LET b == LoopBody(qr_code, qr_text_bound)
       IN /\ qr_text_bound' = b.text_bound
          /\ IF b.next = "continue"
             THEN qr_pc' = "loop" /\ qr_result' = qr_result /\ qr_code' = NoCode
             ELSE qr_pc' = "done" /\ qr_result' = b.result /\ qr_code' = qr_code
    /\ UNCHANGED qr_idx
    /\ UNCHANGED <<validator_vars, extractor_vars, parse_vars, http_vars, ledger_vars>>

NextQr == QrStart \/ QrFetch \/ QrExhausted \/ QrBody

SpecQr == InitQr /\ [][NextQr]_vars

\* ------------------------------------------------------------ parse_receipt's runs

InitParse ==
    /\ pr_call \in ParseCalls
    /\ pr_env \in EnvInputs
    /\ pr_pc = "idle"
    /\ pr_provider = Null
    /\ pr_fn = NoFn
    /\ pr_invocations = <<>>
    /\ pr_adapter = PrPending
    /\ pr_result = PrPending
    /\ ValidatorIdle
    /\ ExtractorIdle
    /\ QrIdle
    /\ HttpIdle
    /\ LedgerIdle

\* The call is bound to the signature (which has no categories parameter),
\* the provider is resolved and looked up in _PROVIDERS.
PrCall ==
    /\ pr_pc = "idle"
    /\ IF pr_call.categories # Missing
       THEN /\ pr_result' = PrRaised(Exception("TypeError", <<>>))
            /\ pr_pc' = "done"
            /\ UNCHANGED <<pr_provider, pr_fn>>
       ELSE LET provider == IF pr_call.provider = Null
                            THEN GetDefault(pr_env, Str(DefaultProvider))
                            ELSE pr_call.provider
                parse_fn == AdapterFor(provider.s)
            IN /\ pr_provider' = provider
               /\ pr_fn' = parse_fn
               /\ IF parse_fn = NoFn
                  THEN /\ pr_result' = PrRaised(UnknownProviderError(provider.s))
                       /\ pr_pc' = "done"
                  ELSE /\ pr_result' = pr_result
                       /\ pr_pc' = "adapter"
    /\ UNCHANGED <<pr_call, pr_env, pr_invocations, pr_adapter>>
    /\ UNCHANGED <<validator_vars, extractor_vars, qr_vars, http_vars, ledger_vars>>

\* raw = parse_fn(image_bytes, mime_type): an exception of the adapter leaves
\* parse_receipt as it is.
PrAdapter ==
    /\ pr_pc = "adapter"
    /\ pr_invocations' =
          Append(pr_invocations, [fn |-> pr_fn, args |-> <<IMAGE_BYTES, MIME_TYPE>>])
    /\ \E api \in ApiOutcomes, content \in ModelOutputs :
          LET r == Adapter(api, content)
          IN /\ pr_adapter' = r
             /\ IF r.kind = "raised"
                THEN pr_result' = r /\ pr_pc' = "done"
                ELSE pr_result' = pr_result /\ pr_pc' = "validate"
    /\ UNCHANGED <<pr_call, pr_env, pr_provider, pr_fn>>
    /\ UNCHANGED <<validator_vars, extractor_vars, qr_vars, http_vars, ledger_vars>>

\* return _validate_receipt_data(raw)
PrValidate ==
    /\ pr_pc = "validate"
    /\ pr_result' = ValidateRaw(pr_adapter.value)
    /\ pr_pc' = "done"
    /\ UNCHANGED <<pr_call, pr_env, pr_provider, pr_fn, pr_invocations, pr_adapter>>
    /\ UNCHANGED <<validator_vars, extractor_vars, qr_vars, http_vars, ledger_vars>>

NextParse == PrCall \/ PrAdapter \/ PrValidate

SpecParse == InitParse /\ [][NextParse]_vars

\* ------------------------------------------------------------ the server's runs

InitHttp ==
    /\ auth_token \in AuthTokens
    /\ \E st \in ServerStates :
          /\ sheet = st.sheet
          /\ last_written_row = st.register
          /\ h_next_id = st.next_id
          /\ h_appended = st.appended
          /\ h_pending = st.pending
    /\ h_pc = "idle"
    /\ h_request = NoRequest
    /\ h_response = NoResponse
    /\ h_ran = FALSE
    /\ h_ops = <<>>
    /\ h_log = <<>>
    /\ h_qr_data = Null
    /\ h_parsed = PrPending
    /\ h_receipt = Null
    /\ h_hist = Null
    /\ h_count = 0
    /\ h_before = NoSnapshot
    /\ ValidatorIdle
    /\ ExtractorIdle
    /\ QrIdle
    /\ ParseIdle
    /\ LedgerIdle

\* A sheets.py call that reached the worksheet, as it is recorded (update_cell
\* with an unknown column raises before that): the function, the row number it was
\* given or returned, the identity of the row it removed (-1 for none), and
\* whether it raised.
Op(name, row, removed, raised) ==
    [op |-> name, row |-> row, removed |-> removed, raised |-> raised]

LookupRaised == [t |-> "raised"]

\* A request arrives and goes through auth_middleware: it is answered there
\* or handed to its route's handler.
AuthMiddleware ==
    /\ h_pc = "idle"
    /\ h_count < MaxRequests
    /\ \E req \in Requests(Len(sheet)) :
          LET m == auth_middleware(auth_token, PathOf(req.kind), req.header)
          IN /\ h_request' = req
             /\ IF m = CallNext
                THEN h_pc' = req.kind /\ h_response' = NoResponse
                ELSE h_pc' = "idle" /\ h_response' = m
    /\ h_count' = h_count + 1
    /\ h_ran' = FALSE
    /\ h_ops' = <<>>
    /\ h_log' = <<>>
    /\ h_qr_data' = Null
    /\ h_parsed' = PrPending
    /\ h_receipt' = Null
    /\ h_hist' = Null
    /\ h_before' = [sheet |-> sheet, register |-> last_written_row,
                     pending |-> h_pending]
    /\ UNCHANGED <<auth_token, sheet, last_written_row, h_next_id, h_appended, h_pending>>
    /\ UNCHANGED <<validator_vars, extractor_vars, qr_vars, parse_vars, ledger_vars>>

\* upload_receipt, up to qr_data = decode_receipt_qr(image_bytes): an
\* exception of the decoder is not caught and the server answers 500.
UploadReceipt ==
    /\ h_pc = "upload"
    /\ h_ran' = TRUE
    /\ h_request' = HandlerArgs(h_request)
    /\ IF ~IsImage(h_request.content_type)
       THEN /\ h_response' = Response(400, "File must be an image")
            /\ h_pc' = "idle"
            /\ h_qr_data' = h_qr_data
       ELSE \E env \in QrEnvironments, codes \in UploadCodes :
               LET q == decode_receipt_qr(env, codes)
               IN IF q.kind = "raised"
                  THEN /\ h_response' = Response(500, "Internal Server Error")
                       /\ h_pc' = "idle"
                       /\ h_qr_data' = h_qr_data
                  ELSE /\ h_response' = h_response
                       /\ h_pc' = "upload_parse"
                       /\ h_qr_data' = QrData(q)
    /\ UNCHANGED <<auth_token, sheet, last_written_row, h_ops, h_log,
                   h_parsed, h_receipt, h_hist, h_count, h_next_id, h_appended, h_pending,
                   h_before>>
    /\ UNCHANGED <<validator_vars, extractor_vars, qr_vars, parse_vars, ledger_vars>>

\* upload_receipt: receipt = parse_receipt(...) inside try, then the
\* comparison of the totals.
UploadParse ==
    /\ h_pc = "upload_parse"
    /\ \E env \in EnvInputs, api \in UploadApiOutcomes, content \in UploadOutputs :
          LET r == parse_receipt([provider |-> h_request.provider,
                                  categories |-> Missing], env, api, content)
          IN IF r.kind = "raised"
             THEN /\ h_response' = ParseFailure
                  /\ h_pc' = "idle"
                  /\ h_parsed' = r
                  /\ UNCHANGED <<h_receipt, h_log>>
             ELSE /\ h_response' = h_response
                  /\ h_pc' = "upload_lookup"
                  /\ h_parsed' = r
                  /\ h_receipt' = r.value
                  /\ h_log' = CrossCheck(r.value, h_qr_data)
    /\ UNCHANGED <<auth_token, sheet, last_written_row, h_request, h_ran, h_ops,
                   h_qr_data, h_hist, h_count, h_next_id, h_appended, h_pending, h_before>>
    /\ UNCHANGED <<validator_vars, extractor_vars, qr_vars, parse_vars, ledger_vars>>

\* upload_receipt: if receipt.bulstat: the lookup of the historical category
\* inside try; an exception of the lookup is logged and nothing else.
UploadLookup ==
    /\ h_pc = "upload_lookup"
    /\ IF Truthy(h_receipt.bulstat)
       THEN \E outcome \in SheetsOutcomes :
               /\ h_ops' = Append(h_ops, Op("lookup_category_by_bulstat", 0, -1,
                                            outcome # "ok"))
               /\ IF outcome = "ok"
                  THEN LET historical_cat ==
                               lookup_category_by_bulstat(sheet, h_receipt.bulstat)
                       IN /\ h_hist' = historical_cat
                          /\ h_receipt' = AutoMap(h_receipt, historical_cat)
                  ELSE /\ h_hist' = LookupRaised
                       /\ h_receipt' = h_receipt
       ELSE UNCHANGED <<h_ops, h_hist, h_receipt>>
    /\ h_pc' = "upload_append"
    /\ UNCHANGED <<auth_token, sheet, last_written_row, h_request, h_response,
                   h_ran, h_log, h_qr_data, h_parsed, h_count, h_next_id,
                   h_appended, h_pending, h_before>>
    /\ UNCHANGED <<validator_vars, extractor_vars, qr_vars, parse_vars, ledger_vars>>

\* try: row_number = append_expense(receipt); _last_written_row = row_number
\* except Exception: 500; then the body with the row and the record.
WriteExpense(receipt, extra) ==
    \E outcome \in AppendOutcomes :
       LET a == append_expense(sheet, receipt, h_next_id, outcome)
       IN /\ sheet' = a.sheet
          /\ last_written_row' = RegisterAfter(last_written_row, a, sheet)
          /\ h_response' = IF a.raised
                           THEN Response(500, "Failed to write to Google Sheets")
                           ELSE Written(a.row, receipt, extra)
          /\ h_ops' = Append(h_ops, Op("append_expense", a.row, -1, a.raised))
          /\ h_next_id' = IF a.sheet = sheet THEN h_next_id ELSE h_next_id + 1
          /\ h_appended' = IF a.raised THEN h_appended ELSE h_next_id
          /\ h_pending' = (IF a.raised THEN h_pending ELSE TRUE)
          /\ h_pc' = "idle"

\* upload_receipt: the append and the response.
UploadAppend ==
    /\ h_pc = "upload_append"
    /\ WriteExpense(h_receipt, [bulstat |-> h_receipt.bulstat, qr |-> h_qr_data])
    /\ UNCHANGED <<auth_token, h_request, h_ran, h_log, h_qr_data, h_parsed,
                   h_receipt, h_hist, h_count, h_before>>
    /\ UNCHANGED <<validator_vars, extractor_vars, qr_vars, parse_vars, ledger_vars>>

\* manual_entry
ManualEntry ==
    /\ h_pc = "manual"
    /\ h_ran' = TRUE
    /\ h_request' = HandlerArgs(h_request)
    /\ LET req == ManualBody
           receipt == ReceiptData(req.date, req.total_eur, req.category,
                                  IF Truthy(req.payment_method)
                                  THEN req.payment_method ELSE Null,
                                  req.notes, Null)
       IN /\ h_receipt' = receipt
          /\ WriteExpense(receipt, [none |-> TRUE])
    /\ UNCHANGED <<auth_token, h_log, h_qr_data, h_parsed, h_hist,
                   h_count, h_before>>
    /\ UNCHANGED <<validator_vars, extractor_vars, qr_vars, parse_vars, ledger_vars>>

\* update_entry
UpdateEntry ==
    /\ h_pc = "update"
    /\ h_ran' = TRUE
    /\ h_request' = HandlerArgs(h_request)
    /\ \E outcome \in SheetsOutcomes :
          LET u == update_cell(sheet, h_request.row, h_request.column, "Bebe", outcome)
          IN /\ sheet' = u.sheet
             /\ h_response' =
                   CASE u.raised = "ValueError" -> Response(400, "Unknown column")
                     [] u.raised = "APIError" -> Response(500, "Failed to update")
                     [] u.raised = "none" -> Response(200, "ok")
             /\ h_ops' = IF u.accessed
                          THEN Append(h_ops, Op("update_cell", h_request.row, -1,
                                                u.raised # "none"))
                          ELSE h_ops
    /\ h_pc' = "idle"
    /\ UNCHANGED <<auth_token, last_written_row, h_log, h_qr_data,
                   h_parsed, h_receipt, h_hist, h_count, h_next_id, h_appended, h_pending,
                   h_before>>
    /\ UNCHANGED <<validator_vars, extractor_vars, qr_vars, parse_vars, ledger_vars>>

\* The identity of the row at position n, -1 when there is no data there.
IdAt(ws, n) == IF n \in 1..Len(ws) THEN ws[n].id ELSE -1

\* delete_entry: the register _last_written_row is not looked at.
DeleteEntry ==
    /\ h_pc = "delete"
    /\ h_ran' = TRUE
    /\ h_request' = HandlerArgs(h_request)
    /\ \E outcome \in SheetsOutcomes :
          LET d == delete_row(sheet, h_request.row, outcome)
          IN /\ sheet' = d.sheet
             /\ h_response' = IF d.raised THEN Response(500, "Failed to delete")
                              ELSE Response(200, "ok")
             /\ h_ops' = Append(h_ops, Op("delete_row", h_request.row,
                                  IF d.raised THEN -1 ELSE IdAt(sheet, h_request.row),
                                  d.raised))
    /\ h_pc' = "idle"
    /\ UNCHANGED <<auth_token, last_written_row, h_log, h_qr_data,
                   h_parsed, h_receipt, h_hist, h_count, h_next_id, h_appended, h_pending,
                   h_before>>
    /\ UNCHANGED <<validator_vars, extractor_vars, qr_vars, parse_vars, ledger_vars>>

\* undo_last
UndoLast ==
    /\ h_pc = "undo"
    /\ h_ran' = TRUE
    /\ h_request' = HandlerArgs(h_request)
    /\ IF last_written_row = Null
       THEN /\ h_response' = Response(404, "Nothing to undo")
            /\ UNCHANGED <<sheet, last_written_row, h_ops, h_pending>>
       ELSE \E outcome \in SheetsOutcomes :
               LET d == delete_row(sheet, last_written_row.n, outcome)
               IN /\ sheet' = d.sheet
                  /\ last_written_row' = RegisterAfterUndo(last_written_row, d)
                  /\ h_pending' = (IF d.raised THEN h_pending ELSE FALSE)
                  /\ h_response' = IF d.raised THEN Response(500, "Failed to undo")
                                   ELSE Response(200, "ok")
                  /\ h_ops' = Append(h_ops, Op("delete_row", last_written_row.n,
                                       IF d.raised THEN -1
                                       ELSE IdAt(sheet, last_written_row.n),
                                       d.raised))
    /\ h_pc' = "idle"
    /\ UNCHANGED <<auth_token, h_log, h_qr_data, h_parsed, h_receipt,
                   h_hist, h_count, h_next_id, h_appended, h_before>>
    /\ UNCHANGED <<validator_vars, extractor_vars, qr_vars, parse_vars, ledger_vars>>

\* get_config
GetConfig ==
    /\ h_pc = "config"
    /\ h_ran' = TRUE
    /\ h_request' = HandlerArgs(h_request)
    /\ h_response' = Response(200, "config")
    /\ h_pc' = "idle"
    /\ UNCHANGED <<auth_token, sheet, last_written_row, h_ops, h_log,
                   h_qr_data, h_parsed, h_receipt, h_hist, h_count, h_next_id,
                   h_appended, h_pending, h_before>>
    /\ UNCHANGED <<validator_vars, extractor_vars, qr_vars, parse_vars, ledger_vars>>

\* serve_frontend
ServeFrontend ==
    /\ h_pc = "frontend"
    /\ h_ran' = TRUE
    /\ h_request' = HandlerArgs(h_request)
    /\ h_response' = Response(200, "index.html")
    /\ h_pc' = "idle"
    /\ UNCHANGED <<auth_token, sheet, last_written_row, h_ops, h_log,
                   h_qr_data, h_parsed, h_receipt, h_hist, h_count, h_next_id,
                   h_appended, h_pending, h_before>>
    /\ UNCHANGED <<validator_vars, extractor_vars, qr_vars, parse_vars, ledger_vars>>

NextHttp ==
    \/ AuthMiddleware
    \/ UploadReceipt
    \/ UploadParse
    \/ UploadLookup
    \/ UploadAppend
    \/ ManualEntry
    \/ UpdateEntry
    \/ DeleteEntry
    \/ UndoLast
    \/ GetConfig
    \/ ServeFrontend

SpecHttp == InitHttp /\ [][NextHttp]_vars

\* ------------------------------------------------------------ the sheet row's runs

InitRow ==
    /\ rw_record \in RowRecords
    /\ rw_row = <<>>
    /\ rw_pc = "idle"
    /\ ValidatorIdle
    /\ ExtractorIdle
    /\ QrIdle
    /\ ParseIdle
    /\ HttpIdle
    /\ AppendIdle
    /\ LookupIdle

\* receipt.to_sheet_row()
BuildRow ==
    /\ rw_pc = "idle"
    /\ rw_row' = to_sheet_row(rw_record)
    /\ rw_pc' = "done"
    /\ UNCHANGED rw_record
    /\ UNCHANGED <<validator_vars, extractor_vars, qr_vars, parse_vars, http_vars,
                   append_vars, lookup_vars>>

NextRow == BuildRow

SpecRow == InitRow /\ [][NextRow]_vars

\* ------------------------------------------------------------ concurrent appends

InitAppend ==
    /\ ap_sheet \in AppendSheets
    /\ ap_receipt \in [Appenders -> AppendReceipts]
    /\ ap_pc = [t \in Appenders |-> "start"]
    /\ ap_row = [t \in Appenders |-> 0]
    /\ ValidatorIdle
    /\ ExtractorIdle
    /\ QrIdle
    /\ ParseIdle
    /\ HttpIdle
    /\ RowIdle
    /\ LookupIdle

\* append_expense, first half, in request t:
\* row = receipt.to_sheet_row(); ws.append_row(row, ...)
AppendRow(t) ==
    /\ ap_pc[t] = "start"
    /\ ap_sheet' = append_row(ap_sheet, Row(RowIdOf(t), to_sheet_row(ap_receipt[t])))
    /\ ap_pc' = [ap_pc EXCEPT ![t] = "appended"]
    /\ UNCHANGED <<ap_receipt, ap_row>>
    /\ UNCHANGED <<validator_vars, extractor_vars, qr_vars, parse_vars, http_vars,
                   row_vars, lookup_vars>>

\* append_expense, second half, in request t: return len(ws.get_all_values())
CountRows(t) ==
    /\ ap_pc[t] = "appended"
    /\ ap_row' = [ap_row EXCEPT ![t] = row_count(ap_sheet)]
    /\ ap_pc' = [ap_pc EXCEPT ![t] = "done"]
    /\ UNCHANGED <<ap_sheet, ap_receipt>>
    /\ UNCHANGED <<validator_vars, extractor_vars, qr_vars, parse_vars, http_vars,
                   row_vars, lookup_vars>>

NextAppend == \E t \in Appenders : AppendRow(t) \/ CountRows(t)

SpecAppend == InitAppend /\ [][NextAppend]_vars

\* ------------------------------------------------------------ the lookup's runs

InitLookup ==
    /\ lk_sheet \in LookupSheets
    /\ lk_bulstat \in LookupBulstats
    /\ lk_result = Null
    /\ lk_pc = "idle"
    /\ ValidatorIdle
    /\ ExtractorIdle
    /\ QrIdle
    /\ ParseIdle
    /\ HttpIdle
    /\ RowIdle
    /\ AppendIdle

\* lookup_category_by_bulstat(bulstat)
Lookup ==
    /\ lk_pc = "idle"
    /\ lk_result' = lookup_category_by_bulstat(lk_sheet, lk_bulstat)
    /\ lk_pc' = "done"
    /\ UNCHANGED <<lk_sheet, lk_bulstat>>
    /\ UNCHANGED <<validator_vars, extractor_vars, qr_vars, parse_vars, http_vars,
                   row_vars, append_vars>>

NextLookup == Lookup

SpecLookup == InitLookup /\ [][NextLookup]_vars

\* ------------------------------------------------------------ properties of the validator

ValidateDone == v_pc = "done"

\* The raw total is one float() accepts (or is absent, and defaults to 0).
TotalCoercible(v) ==
    \/ v = Missing
    \/ v.t = "num"
    \/ v.t = "chars" /\ v.cs # <<>> /\ \A i \in 1..Len(v.cs) : v.cs[i] \in Digit

IsDigitChar(c) == c \in Digit

\* C1: for every raw mapping and every non-empty category list given to the
\* validator, a record comes back whose category is the raw category when that
\* is a member of the given list, and the default category otherwise.
C1_CategoryAgainstGivenList ==
    (ValidateDone /\ Len(call_args) = 1 /\ TotalCoercible(data.total_eur)) =>
        /\ validated.raised = "none"
        /\ validated.receipt.category =
              IF InList(data.category, call_args[1])
              THEN data.category ELSE Str(DefaultCategory)

\* C2: called without a category list, the validator returns any raw category
\* string unmodified, also one that is not a built-in category.
C2_PermissiveWithoutList ==
    (ValidateDone /\ call_args = NoArgs /\ validated.raised = "none"
        /\ data.category.t = "str") =>
        validated.receipt.category = data.category

\* C3: the record's payment method is absent or a member of the allowed
\* payment methods: a raw exact match is kept, every other raw value (the
\* empty string included) becomes absent.
C3_PaymentAbsentOrAllowed ==
    (ValidateDone /\ validated.raised = "none") =>
        LET p == validated.receipt.payment_method
        IN /\ p = Null \/ InList(p, PAYMENT_METHODS)
           /\ InList(data.payment_method, PAYMENT_METHODS) => p = data.payment_method
           /\ ~InList(data.payment_method, PAYMENT_METHODS) => p = Null

\* C4 as stated: the validator never raises, and the record's total is 0
\* whenever the raw total is absent or cannot be converted to a number.
C4_ValidatorNeverRaises ==
    (ValidateDone /\ call_args = NoArgs) =>
        /\ validated.raised = "none"
        /\ (data.total_eur = Missing \/ ~TotalCoercible(data.total_eur)) =>
              validated.receipt.total_eur = 0

\* C4 as amended: called with the raw mapping alone, the validator returns a
\* record exactly when the raw total is absent or convertible by float(); the
\* total is then 0 for an absent total and the converted number otherwise; a
\* null total raises TypeError and a non-numeric string raises ValueError, and
\* no record is produced.
C4_RaisesOnUnconvertibleTotal ==
    (ValidateDone /\ call_args = NoArgs) =>
        LET raw == data.total_eur
        IN /\ validated.raised = "none" <=> TotalCoercible(raw)
           /\ raw = Missing => validated.receipt.total_eur = 0
           /\ raw = Null => validated.raised = "TypeError"
           /\ (raw.t = "chars" /\ ~TotalCoercible(raw)) => validated.raised = "ValueError"
           /\ validated.raised # "none" => validated.receipt = NoReceipt

\* C4 witness: a call with a null total has raised.
C4_Witness ==
    /\ ValidateDone /\ call_args = NoArgs
    /\ data.total_eur = Null
    /\ validated.raised = "TypeError"

\* C5: the record's tax id is absent or a non-empty string made only of the
\* digits of the raw value in their original order, and absent when the raw
\* value is missing or holds no digit.
C5_TaxIdDigitsOnly ==
    (ValidateDone /\ validated.raised = "none") =>
        LET b == validated.receipt.bulstat
            raw == data.bulstat
            rawDigits == IF raw.t \in {"chars", "num"}
                         THEN SelectSeq(PyStr(raw), IsDigitChar) ELSE <<>>
        IN /\ b = Null \/ (b.t = "chars" /\ b.cs # <<>> /\ b.cs = rawDigits)
           /\ rawDigits = <<>> => b = Null

\* C6: the record has a card_last4 field, holding the 4 digits of the raw
\* card_last4 when stripping its non-digits leaves exactly 4 characters, and
\* absent otherwise.
C6_CardLast4 ==
    (ValidateDone /\ validated.raised = "none") =>
        /\ "card_last4" \in DOMAIN validated.receipt
        /\ LET raw == data.card_last4
               digits == IF raw.t = "chars" THEN SelectSeq(raw.cs, IsDigitChar) ELSE <<>>
           IN validated.receipt.card_last4 =
                 IF Len(digits) = 4 THEN Chars(digits) ELSE Null

\* C7 as stated: every record the validator produces has a non-negative total.
C7_TotalNonNegative ==
    (ValidateDone /\ validated.raised = "none") => validated.receipt.total_eur >= 0

\* C7 as amended: the record's total is the number the raw total converts to
\* (0 when absent), so it is non-negative when the raw total is absent or
\* non-negative and negative when the raw total is a negative number.
C7_TotalFollowsRawSign ==
    (ValidateDone /\ validated.raised = "none") =>
        LET raw == data.total_eur
            total == validated.receipt.total_eur
        IN /\ raw = Missing => total = 0
           /\ raw.t = "num" => total = raw.n
           /\ raw.t = "chars" => total >= 0
           /\ total < 0 <=> (raw.t = "num" /\ raw.n < 0)

\* C7 witness: a record was produced from a negative raw total.
C7_Witness ==
    /\ ValidateDone /\ validated.raised = "none"
    /\ data.total_eur = Num(-500)
    /\ validated.receipt.total_eur = -500

\* ------------------------------------------------------------ properties of the extractor

ExtractDone == x_pc = "done"

\* A fenced block: a fence at i, an optional tag, optional whitespace, { at p,
\* } at q, optional whitespace and a closing fence.
FenceShape(i, p, q) ==
    /\ text[i] = FENCE /\ i < p /\ p < q
    /\ text[p] = LBRACE /\ text[q] = RBRACE
    /\ \A k \in (i + 1)..(p - 1) : text[k] = WS \/ (k = i + 1 /\ text[k] = TAG)
    /\ \E c \in (q + 1)..Len(text) :
          text[c] = FENCE /\ \A k \in (q + 1)..(c - 1) : text[k] = WS

Fences == {i \in 1..Len(text) : text[i] = FENCE}
LBraces == {i \in 1..Len(text) : text[i] = LBRACE}
RBraces == {i \in 1..Len(text) : text[i] = RBRACE}

FencedBlocks == {b \in Fences \X LBraces \X RBraces : FenceShape(b[1], b[2], b[3])}

\* The first fenced block: the leftmost opening fence, up to the nearest
\* closing brace that a closing fence follows.
FirstFencedBlock ==
    CHOOSE b \in FencedBlocks :
        \A c \in FencedBlocks : b[1] < c[1] \/ (b[1] = c[1] /\ b[3] <= c[3])

HasBraces == \E a \in LBraces : \E b \in RBraces : a < b

MinOf(S) == CHOOSE x \in S : \A y \in S : x <= y
MaxOf(S) == CHOOSE x \in S : \A y \in S : x >= y

\* A span is a JSON object: braces around whitespace and at most one member.
IsJsonObject(span) ==
    /\ Len(span) >= 2 /\ span[1] = LBRACE /\ span[Len(span)] = RBRACE
    /\ \A i \in 2..(Len(span) - 1) : span[i] \in {WS, MEMBER}
    /\ Cardinality({i \in 2..(Len(span) - 1) : span[i] = MEMBER}) <= 1

\* What parsing a located span gives: its mapping, or MalformedJson.
ParseOf(span) ==
    IF IsJsonObject(span)
    THEN JsonValue({span[i] : i \in {k \in 1..Len(span) : span[k] = MEMBER}})
    ELSE JsonDecodeError

\* C8: the strategies are tried in order and the first whose pattern matches
\* decides: with a fenced {...} block in the text the result is the parse of
\* the (first) block's contents, otherwise the parse of the span from the first
\* { to the last }; a malformed span fails with MalformedJson, with no second
\* strategy and no repair.
C8_FirstMatchWins ==
    ExtractDone =>
        IF FencedBlocks # {}
        THEN LET b == FirstFencedBlock
             IN extracted = ParseOf(SubSeq(text, b[2], b[3]))
        ELSE HasBraces =>
                extracted = ParseOf(SubSeq(text, MinOf(LBraces), MaxOf(RBraces)))

\* C8 witness: the fenced block parsed although the span from the first { to
\* the last } is malformed, so the order of the strategies decided the result.
C8_Witness ==
    /\ ExtractDone
    /\ FencedBlocks # {}
    /\ extracted.raised = "none"
    /\ ~IsJsonObject(SubSeq(text, MinOf(LBraces), MaxOf(RBraces)))

RECURSIVE PiecesLen(_)
PiecesLen(d) == IF d = <<>> THEN 0 ELSE Head(d).len + PiecesLen(Tail(d))

\* d spells the first characters of the text: whole tokens, then possibly one
\* token cut short.
IsCharPrefix(d) ==
    /\ Len(d) <= Len(text)
    /\ \A i \in 1..Len(d) :
          /\ d[i].tok = text[i]
          /\ d[i].len >= 1 /\ d[i].len <= TokLen(text[i])
          /\ i < Len(d) => d[i].len = TokLen(text[i])

\* C9: a text with no fenced {...} block and no { followed by a later } fails
\* with NoJsonFound, whose detail holds the first 200 characters of the text
\* (the whole text when it is shorter).
C9_NoJsonFound ==
    (ExtractDone /\ FencedBlocks = {} /\ ~HasBraces) =>
        /\ extracted.raised = "ValueError"
        /\ extracted.value = NoValue
        /\ IsCharPrefix(extracted.detail)
        /\ PiecesLen(extracted.detail) =
              IF CharLen(text) < DetailLen THEN CharLen(text) ELSE DetailLen

\* C9 witness: NoJsonFound was raised for a text longer than 200 characters.
C9_Witness ==
    /\ ExtractDone /\ ~HasBraces
    /\ CharLen(text) > DetailLen
    /\ extracted.raised = "ValueError"
    /\ PiecesLen(extracted.detail) = DetailLen

\* ------------------------------------------------------------ properties of the QR decoder

Stars(cs) == {i \in 1..Len(cs) : cs[i] = "*"}

\* The number of segments the stars cut a payload into.
NumSegments(cs) == Cardinality(Stars(cs)) + 1

\* The position of the k-th star; 0 before the first segment and Len + 1
\* after the last.
StarAt(cs, k) ==
    IF k = 0 THEN 0
    ELSE IF k > Cardinality(Stars(cs)) THEN Len(cs) + 1
    ELSE CHOOSE i \in Stars(cs) : Cardinality({j \in Stars(cs) : j < i}) = k - 1

\* The k-th segment (k = 1 is the first).
Segment(cs, k) == SubSeq(cs, StarAt(cs, k - 1) + 1, StarAt(cs, k) - 1)

IsNumeric(seg) == seg # <<>> /\ \A i \in 1..Len(seg) : seg[i] \in Digit

\* The payload read off the segments of a text.
FieldsOf(cs) ==
    [fp_number |-> Chars(Segment(cs, 1)), receipt_number |-> Chars(Segment(cs, 2)),
     date |-> Chars(Segment(cs, 3)), time |-> Chars(Segment(cs, 4)),
     amount |-> IF NumSegments(cs) >= 5
                THEN Num(100 * DigitsValue(Segment(cs, 5))) ELSE Null]

InBodyWithText == qr_pc = "body" /\ qr_code.type = QRCODE /\ qr_code.utf8

BodyReturns(d) == qr_pc' = "done" /\ qr_result' = QrDict(d)
BodyDiscards == qr_pc' = "loop" /\ qr_result' = QrPending

\* C10 as stated: a QR payload text of n segments gives, when n >= 4, fiscal
\* id, receipt number, date and time from segments 1 to 4 and the amount from
\* segment 5 when n >= 5 (absent otherwise); with n < 4 the candidate is
\* discarded; with no candidate yielding a payload the result is absent.
C10_DecodesPositionalFields ==
    [][ /\ InBodyWithText =>
             IF NumSegments(qr_code.cs) >= 4
             THEN BodyReturns(FieldsOf(qr_code.cs))
             ELSE BodyDiscards
        /\ (qr_pc = "loop" /\ qr_pc' = "done") => qr_result' = QrNone ]_vars

\* C10 as amended: the payload is returned when n = 4, or when n >= 5 and
\* segment 5 is a number; a candidate with n < 4, or with n >= 5 and a segment
\* 5 that is not a number, is discarded; with no candidate yielding a payload
\* the result is absent.
C10_DecodesWhenAmountNumeric ==
    [][ /\ InBodyWithText =>
             LET n == NumSegments(qr_code.cs)
             IN IF n = 4 \/ (n >= 5 /\ IsNumeric(Segment(qr_code.cs, 5)))
                THEN BodyReturns(FieldsOf(qr_code.cs))
                ELSE BodyDiscards
        /\ (qr_pc = "loop" /\ qr_pc' = "done") => qr_result' = QrNone ]_vars

\* C10 witness: a payload of five non-empty segments was returned with its amount.
C10_Witness ==
    /\ qr_pc = "done" /\ qr_result.kind = "dict"
    /\ NumSegments(qr_code.cs) = 5
    /\ \A k \in 1..5 : Segment(qr_code.cs, k) # <<>>
    /\ qr_result.dict.amount = Num(200)
    /\ qr_result.dict.date # qr_result.dict.time

\* A candidate the decoder is meant to pass over: a code of another type, a
\* QR code whose bytes are not UTF-8, or one whose amount segment is not a number.
Skippable(code) ==
    \/ code.type # QRCODE
    \/ ~code.utf8
    \/ NumSegments(code.cs) >= 5 /\ ~IsNumeric(Segment(code.cs, 5))

\* C11: the QR decoder never raises: a candidate that is not a QR code, whose
\* bytes are not valid UTF-8 or whose amount segment is not numeric is passed
\* over and the scan goes on with the next candidate; the call ends with the
\* payload of the first candidate that parses or with absent; a missing
\* library or an unreadable image ends it with absent.
C11_QrNeverRaises ==
    [][ /\ (qr_pc = "body" /\ Skippable(qr_code)) =>
              qr_pc' = "loop" /\ qr_result' = QrPending
        /\ (qr_pc = "start" /\ qr_pc' = "done") => qr_result' = QrNone
        /\ qr_pc' = "done" => qr_result'.kind \in {"none", "dict"} ]_vars

\* ------------------------------------------------------------ properties of parse_receipt

\* The provider name a call resolves to: the argument, or the environment's
\* VISION_PROVIDER, or "claude".
ResolvedName ==
    IF pr_call.provider # Null THEN pr_call.provider.s
    ELSE IF pr_env # Missing THEN pr_env.s
    ELSE "claude"

Registered(name) == name \in {"claude", "gemini", "grok"}

\* The body of parse_receipt has run as far as resolving the provider.
ProviderResolved == pr_provider # Null

ParseDone == pr_pc = "done"

Mentions(message, piece) == \E i \in 1..Len(message) : message[i] = piece

\* C12: when the resolved provider name (the argument, or the process-wide
\* default when no argument is given) is not a registered adapter,
\* parse_receipt fails with the unknown-provider error, whose message names
\* every valid provider, and no adapter is invoked.
C12_UnknownProviderFails ==
    /\ ProviderResolved => pr_provider.s = ResolvedName
    /\ (ProviderResolved /\ ~Registered(ResolvedName)) =>
          /\ ParseDone
          /\ pr_result.kind = "raised"
          /\ pr_result.exception.type = "ValueError"
          /\ Mentions(pr_result.exception.message, "Unknown provider '")
          /\ Mentions(pr_result.exception.message, ResolvedName)
          /\ \A name \in {"claude", "gemini", "grok"} :
                Mentions(pr_result.exception.message, name)
          /\ pr_invocations = <<>>
          /\ pr_adapter = PrPending

\* C12 witness: no provider argument, VISION_PROVIDER names an unregistered
\* provider, and the call has failed.
C12_Witness ==
    /\ ParseDone /\ ProviderResolved
    /\ pr_call.provider = Null /\ pr_env = Str("openai")
    /\ pr_result.kind = "raised"
    /\ pr_invocations = <<>>

\* C13: in every run of parse_receipt with a known provider the selected
\* adapter, and no other, is invoked exactly once; when the adapter or the
\* JSON extraction inside it fails, that same failure is what parse_receipt
\* raises, with no second invocation.
C13_OneAdapterFailurePropagates ==
    (ProviderResolved /\ Registered(ResolvedName)) =>
        /\ Len(pr_invocations) <= 1
        /\ pr_pc \in {"validate", "done"} <=> Len(pr_invocations) = 1
        /\ \A i \in 1..Len(pr_invocations) :
              /\ ResolvedName = "claude" => pr_invocations[i].fn = "_parse_with_claude"
              /\ ResolvedName = "gemini" => pr_invocations[i].fn = "_parse_with_gemini"
              /\ ResolvedName = "grok" => pr_invocations[i].fn = "_parse_with_grok"
        /\ pr_adapter.kind = "raised" => ParseDone /\ pr_result = pr_adapter
        /\ ParseDone => pr_adapter.kind # "pending"

\* C13 witness: the gemini adapter was invoked once, its JSON extraction
\* failed, and parse_receipt raised that failure.
C13_Witness ==
    /\ ParseDone /\ ResolvedName = "gemini"
    /\ Len(pr_invocations) = 1
    /\ pr_adapter.kind = "raised"
    /\ pr_adapter.exception.type = "JSONDecodeError"
    /\ pr_result = pr_adapter

\* C14: parse_receipt takes the category list as an argument, calls the
\* selected adapter with (image bytes, mime type, category list) and returns
\* the validation of the adapter's output against that list: an output with a
\* category outside the list and a total of 23.45 gives a record with the
\* default category and a total of 23.45.
C14_CategoryListPassedThrough ==
    (ParseDone /\ pr_call.categories # Missing /\ Registered(ResolvedName)) =>
        /\ Len(pr_invocations) = 1
        /\ pr_invocations[1].args = <<IMAGE_BYTES, MIME_TYPE, pr_call.categories>>
        /\ (/\ pr_adapter.kind = "returned"
            /\ ~InList(pr_adapter.value.category, pr_call.categories.items)
            /\ pr_adapter.value.total_eur = Num(2345)) =>
              /\ pr_result.kind = "returned"
              /\ pr_result.value.category = Str(DefaultCategory)
              /\ pr_result.value.total_eur = 2345

\* ------------------------------------------------------------ properties of the server

\* A request has been answered.
Responded == h_pc = "idle" /\ h_request.kind # "none"

ParseFailed == h_request.kind = "upload" /\ h_parsed.kind = "raised"
ParseSucceeded == h_request.kind = "upload" /\ h_parsed.kind = "returned"

\* The append_expense calls made for the request.
Appends == {i \in 1..Len(h_ops) : h_ops[i].op = "append_expense"}

AppendFailed == \E i \in Appends : h_ops[i].raised
AppendSucceeded == \E i \in Appends : ~h_ops[i].raised

RegisterKept == last_written_row = h_before.register
SheetKept == sheet = h_before.sheet

\* One row was added below the rows the sheet had.
OneRowAppended ==
    /\ Len(sheet) = Len(h_before.sheet) + 1
    /\ SubSeq(sheet, 1, Len(h_before.sheet)) = h_before.sheet

LastRow == sheet[Len(sheet)]

\* The amount a cell written as digits, a comma and two digits stands for, in
\* hundredths.
AmountOf(cell) ==
    LET cs == cell.cs
        comma == CHOOSE i \in 1..Len(cs) : cs[i] = ","
    IN 100 * DigitsValue(SubSeq(cs, 1, comma - 1))
          + DigitsValue(SubSeq(cs, comma + 1, Len(cs)))

\* C15: in every upload whose parse stage fails (unknown provider, adapter
\* failure, no or malformed JSON, validation error) no ledger row is appended,
\* the response is 422, and the register _last_written_row keeps the value it
\* had before the request.
C15_ParseFailureWritesNothing ==
    ParseFailed =>
        /\ Responded
        /\ h_response.status = 422
        /\ Appends = {}
        /\ SheetKept
        /\ RegisterKept

\* C15 witness: an upload whose model answer was malformed JSON was answered
\* 422 while the register held a row number.
C15_Witness ==
    /\ Responded /\ ParseFailed
    /\ h_parsed.exception.type = "JSONDecodeError"
    /\ h_response.status = 422
    /\ last_written_row = Num(3)

\* C16: when the ledger append fails after a successful parse (upload) or in a
\* manual entry, the response is a 5xx error that carries no row number and
\* no record, and the register keeps its previous value.
C16_AppendFailureIsAtomic ==
    (Responded /\ AppendFailed) =>
        /\ h_request.kind \in {"upload", "manual"}
        /\ h_request.kind = "upload" => ParseSucceeded
        /\ h_response.status \in 500..599
        /\ DOMAIN h_response = {"status", "detail"}
        /\ RegisterKept

\* C16 witness: an upload was parsed, its append failed, and the register
\* still holds the row number of the earlier entry.
C16_Witness ==
    /\ Responded /\ ParseSucceeded /\ AppendFailed
    /\ h_response.status = 500
    /\ h_before.register = Num(3) /\ last_written_row = Num(3)

\* Whether the QR amount and the model's total are both there and differ by
\* more than 0.01.
Discrepancy ==
    /\ h_qr_data # Null
    /\ h_qr_data.amount # Null
    /\ \/ h_parsed.value.total_eur - h_qr_data.amount.n > 1
       \/ h_qr_data.amount.n - h_parsed.value.total_eur > 1

\* C17 as stated: in every upload whose parse succeeds, whatever the QR
\* decoder returned, exactly one row is appended, and the appended row and
\* the returned data carry the model-derived total.
C17_QrNeverBlocksWrite ==
    (Responded /\ ParseSucceeded) =>
        /\ OneRowAppended
        /\ AmountOf(LastRow.cells[4]) = h_parsed.value.total_eur
        /\ "data" \in DOMAIN h_response
        /\ h_response.data.total_eur = h_parsed.value.total_eur

\* C17 as amended: in every upload whose parse succeeds, whatever the QR
\* decoder returned, append_expense is called exactly once; the row it writes
\* is one row carrying the model-derived total; when the call succeeds, the
\* returned data carry the model-derived total and the row's number; when it
\* fails the response is 500.  A discrepancy is logged exactly when both
\* amounts are there and differ by more than 0.01.
C17_QrNeverAltersWrite ==
    (Responded /\ ParseSucceeded) =>
        /\ Cardinality(Appends) = 1
        /\ h_receipt.total_eur = h_parsed.value.total_eur
        /\ ~SheetKept =>
              /\ OneRowAppended
              /\ AmountOf(LastRow.cells[4]) = h_parsed.value.total_eur
        /\ AppendSucceeded =>
              /\ OneRowAppended
              /\ h_response.status = 200
              /\ h_response.row = Len(sheet)
              /\ h_response.data.total_eur = h_parsed.value.total_eur
        /\ AppendFailed => h_response.status = 500
        /\ h_log # <<>> <=> Discrepancy

\* C17 witness: the QR amount is 2.00, the model's total 23.45, the
\* discrepancy was logged and the row was written with 23.45.
C17_Witness ==
    /\ Responded /\ ParseSucceeded /\ AppendSucceeded
    /\ h_qr_data # Null /\ h_qr_data.amount = Num(200)
    /\ h_parsed.value.total_eur = 2345
    /\ h_log # <<>>
    /\ OneRowAppended
    /\ LastRow.cells[4] = Chars(<<"2", "3", ",", "4", "5">>)

\* The category the upload is to write: the historical one when the parsed
\* category is the default, the parsed tax id is not empty and the lookup
\* returned a category; the parsed one otherwise.
ExpectedCategory ==
    IF /\ h_parsed.value.category = Str("Razni")
       /\ h_parsed.value.bulstat \notin {Null, Chars(<<>>)}
       /\ h_hist \notin {Null, LookupRaised}
    THEN h_hist
    ELSE h_parsed.value.category

\* C18 as stated: in an upload the category written to the ledger is the
\* historical category exactly when the parsed category is the default, the
\* parsed tax id is not empty and the lookup returns a category; in every
\* other case (another parsed category, no tax id, lookup absent, lookup
\* failed) the parsed category is written unchanged, and the write takes place.
C18_HistoricalCategoryWritten ==
    (Responded /\ ParseSucceeded) =>
        /\ OneRowAppended
        /\ LastRow.cells[2] = ExpectedCategory

\* C18 as amended: the category handed to append_expense is the historical
\* category when the parsed category is the default, the parsed tax id is not
\* empty and the lookup returns a category, and the parsed category in every
\* other case; the append is attempted in all these cases, and the row it
\* writes, and the data returned when it succeeds, carry that category.
C18_HistoricalCategoryOnDefault ==
    (Responded /\ ParseSucceeded) =>
        /\ Cardinality(Appends) = 1
        /\ h_receipt.category = ExpectedCategory
        /\ ~SheetKept => OneRowAppended /\ LastRow.cells[2] = ExpectedCategory
        /\ AppendSucceeded =>
              /\ OneRowAppended
              /\ h_response.data.category = ExpectedCategory
        /\ (h_hist # Null) => h_parsed.value.bulstat # Null

\* C18 witness: a parsed category other than the default met a tax id with a
\* history, and the parsed category was written.
C18_Witness ==
    /\ Responded /\ ParseSucceeded /\ AppendSucceeded
    /\ h_parsed.value.category = Str("Bebe")
    /\ h_hist = Str("Hrana")
    /\ LastRow.cells[2] = Str("Bebe")

\* C19: after any sequence of upload, manual-entry, delete-entry and undo
\* requests, a successful undo deletes exactly the row that the most recent
\* successful append created and no other row, also when an earlier row was
\* removed through delete-entry after that append.
C19_UndoDeletesLastAppend ==
    (Responded /\ h_request.kind = "undo" /\ h_response.status = 200) =>
        \E n \in 1..Len(h_before.sheet) :
            /\ h_before.sheet[n].id = h_appended
            /\ sheet = SubSeq(h_before.sheet, 1, n - 1)
                          \o SubSeq(h_before.sheet, n + 1, Len(h_before.sheet))

\* The request has come out of the middleware and its handler has not started.
JustArrived == h_request.kind # "none" /\ ~h_ran

\* The Authorization header is missing, does not start with "Bearer ", or
\* carries a token other than the configured one.
BadCredentials ==
    \/ h_request.header = Missing
    \/ ~StartsWith(h_request.header.cs, BearerPrefix)
    \/ SubSeq(h_request.header.cs, Len(BearerPrefix) + 1, Len(h_request.header.cs))
          # auth_token

\* C20: with a token configured, every request to an /api/ route whose
\* Authorization header is missing, does not start with "Bearer " or carries
\* another token is answered 401 and its handler does not run (no sheets.py
\* call, register unchanged); a request with the exact token reaches its
\* handler; with no token configured every request reaches its handler.
C20_AuthGuardsApi ==
    JustArrived =>
        IF auth_token # <<>> /\ h_request.kind # "frontend" /\ BadCredentials
        THEN /\ h_pc = "idle"
             /\ h_response.status = 401
             /\ h_ops = <<>>
             /\ SheetKept
             /\ RegisterKept
        ELSE h_pc = h_request.kind

\* The cell at row n and column c of the grid: empty where there is no data.
CellAt(ws, n, c) == IF n \in 1..Len(ws) THEN ws[n].cells[c] ELSE Str("")

\* The cells of the grid whose content the request changed.
CellsChanged ==
    LET last == IF Len(sheet) > Len(h_before.sheet)
                THEN Len(sheet) ELSE Len(h_before.sheet)
    IN {nc \in (1..last) \X (1..Len(SHEET_COLUMNS)) :
           CellAt(sheet, nc[1], nc[2]) # CellAt(h_before.sheet, nc[1], nc[2])}

\* update_entry has run for the request and the request is answered.
Updated == Responded /\ h_ran /\ h_request.kind = "update"

Recognized(column) == \E i \in 1..Len(SHEET_COLUMNS) : SHEET_COLUMNS[i] = column

\* The position of a column in the fixed column order, counted from 1.
PositionOf(column) == CHOOSE i \in 1..Len(SHEET_COLUMNS) : SHEET_COLUMNS[i] = column

\* The worksheet calls of update_cell made for the request.
Updates == {i \in 1..Len(h_ops) : h_ops[i].op = "update_cell"}

RowBuilt == rw_pc = "done"

\* C22: for every record, the row built from it has as many cells as the
\* fixed column list (10), and cells 1, 2, 6 and 9 hold the record's date,
\* category, payment method and notes unchanged, an absent payment method
\* being the empty cell.
C22_RowRoundTrip ==
    RowBuilt =>
        /\ Len(rw_row) = Len(SHEET_COLUMNS)
        /\ Len(rw_row) = 10
        /\ rw_row[1] = rw_record.date
        /\ rw_row[2] = rw_record.category
        /\ rw_row[6] = IF rw_record.payment_method = Null
                       THEN Str("") ELSE rw_record.payment_method
        /\ rw_row[9] = rw_record.notes

\* undo_last has run for the request and the request is answered.
Undone == Responded /\ h_ran /\ h_request.kind = "undo"

\* The delete_row calls made for the request.
Deletes == {i \in 1..Len(h_ops) : h_ops[i].op = "delete_row"}

\* C23: an undo issued when no append has succeeded since startup or since
\* the last successful undo is answered 404 and deletes nothing; a successful
\* undo clears the last-written-row register; an undo whose ledger delete
\* fails is answered 5xx and leaves the register as it was (not cleared), so
\* that a later undo asks for the same row.
C23_UndoOncePerAppend ==
    Undone =>
        /\ ~h_before.pending =>
              /\ h_response.status = 404
              /\ h_ops = <<>>
              /\ SheetKept
        /\ h_response.status = 200 => last_written_row = Null /\ ~h_pending
        /\ (\E i \in Deletes : h_ops[i].raised) =>
              /\ h_response.status \in 500..599
              /\ RegisterKept
              /\ last_written_row # Null
              /\ h_ops[1].row = last_written_row.n
              /\ h_pending

\* C23 witness: the second of two undo requests, the first of which went
\* through, is answered 404.
C23_Witness ==
    /\ Undone /\ h_count = 2
    /\ h_appended = 2 /\ ~h_before.pending
    /\ h_response.status = 404
    /\ Len(sheet) = 2

\* ------------------------------------------------------------ properties of concurrent appends

AppendDone(t) == ap_pc[t] = "done"

\* C24: the row number an append returns is the position (counted from 1,
\* the header included) of the row this append wrote, also when two appends
\* run at the same time: they never return the same number and never the
\* position of the other request's row.
C24_AppendReturnsOwnPosition ==
    /\ \A t \in Appenders :
          AppendDone(t) =>
             /\ ap_row[t] \in 1..Len(ap_sheet)
             /\ ap_sheet[ap_row[t]].id = RowIdOf(t)
    /\ \A t, u \in Appenders :
          (t # u /\ AppendDone(t) /\ AppendDone(u)) => ap_row[t] # ap_row[u]

\* ------------------------------------------------------------ properties of the lookup

LookupDone == lk_pc = "done"

\* The position of a column in the header of the sheet read, 0 when the
\* sheet has no header or the header lacks the column.
HeaderColumn(name) ==
    IF lk_sheet # <<>> /\ \E i \in 1..Len(lk_sheet[1].cells) : lk_sheet[1].cells[i] = Str(name)
    THEN MinOf({i \in 1..Len(lk_sheet[1].cells) : lk_sheet[1].cells[i] = Str(name)})
    ELSE 0

\* The data rows whose tax id cell equals the tax id asked for and whose
\* category cell is not empty.
Counted ==
    {n \in 2..Len(lk_sheet) :
        /\ Len(lk_sheet[n].cells) >= HeaderColumn("BULSTAT")
        /\ lk_sheet[n].cells[HeaderColumn("BULSTAT")] = lk_bulstat
        /\ Len(lk_sheet[n].cells) >= HeaderColumn("Kategoriya")
        /\ lk_sheet[n].cells[HeaderColumn("Kategoriya")] # Str("")}

CategoryAt(n) == lk_sheet[n].cells[HeaderColumn("Kategoriya")]

Occurrences(c) == Cardinality({n \in Counted : CategoryAt(n) = c})

FirstRowOf(c) == MinOf({n \in Counted : CategoryAt(n) = c})

\* The cases in which the lookup has nothing to return.
NoAnswer ==
    \/ lk_bulstat \in {Null, Str("")}
    \/ Len(lk_sheet) < 2
    \/ HeaderColumn("BULSTAT") = 0
    \/ HeaderColumn("Kategoriya") = 0
    \/ Counted = {}

\* C25: for a non-empty tax id the lookup returns the category with the most
\* occurrences among the data rows whose tax id cell equals it and whose
\* category cell is not empty, on a tie the tied category that appears first
\* in row order; it returns absent when the tax id is empty, the sheet has
\* fewer than two rows, the header lacks the tax id or the category column,
\* or no row matches.
C25_MostCommonCategory ==
    LookupDone =>
        IF NoAnswer THEN lk_result = Null
        ELSE /\ \E n \in Counted : CategoryAt(n) = lk_result
             /\ \A n \in Counted :
                   CategoryAt(n) # lk_result =>
                      \/ Occurrences(CategoryAt(n)) < Occurrences(lk_result)
                      \/ /\ Occurrences(CategoryAt(n)) = Occurrences(lk_result)
                         /\ FirstRowOf(lk_result) < FirstRowOf(CategoryAt(n))

\* C25 witness: two categories occur once each for the tax id and the one in
\* the earlier row is returned.
C25_Witness ==
    /\ LookupDone /\ ~NoAnswer
    /\ lk_result = Str("Bebe")
    /\ Occurrences(Str("Bebe")) = 1
    /\ Occurrences(Str("Hrana")) = 1
    /\ FirstRowOf(Str("Bebe")) < FirstRowOf(Str("Hrana"))

====
